---- MODULE Spec2Model ----
(***************************************************************************)
(* A model of JSONK (jsonk.c / jsonk.h): the token scanner, the recursive  *)
(* parser, the serializer, deep copy and the merge-patch engine.           *)
(*                                                                         *)
(* A text is a sequence of bytes; a byte is a one-character string, and    *)
(* the control bytes are written by name ("NUL", "BS", "TAB", "LF", "FF",  *)
(* "CR").  Positions are 0-based as in the C code: the byte at position p  *)
(* of a buffer b is b[p + 1].  A value tree is a record carrying the       *)
(* fields of struct jsonk_value; the member and element lists are          *)
(* sequences in list order.                                                *)
(***************************************************************************)
EXTENDS Integers, Sequences, FiniteSets, TLC

VARIABLES
    kmem,         \* the allocator: armed failure and live allocations
    last_parser,  \* the struct jsonk_parser of the last jsonk_parse, as it returned
    pc,           \* which call has completed
    target,       \* bytes of the target document (also the text that is parsed)
    patch,        \* bytes of the patch document
    result,       \* the caller's result buffer, result_max_len bytes
    result_len,   \* the caller's size_t the call reports the length through
    ret,          \* the last return code of jsonk_apply_patch
    locals,       \* the locals of jsonk_apply_patch when it returned
    value,        \* tree returned by jsonk_parse(target)
    sret,         \* return code of jsonk_serialize(value, result, ...)
    reparsed,     \* tree returned by parsing the serialized bytes
    hist,         \* what the caller held before the last call
    declared,     \* the buffer_size the caller passes with the result buffer
    heap,         \* the struct jsonk_value at each address of the value cache
    held,         \* the references each context holds to each address
    cpc,          \* where each context is inside jsonk_value_put
    frees,        \* how often the shared Value was handed to jsonk_value_free_internal
    last          \* the last operation on the heap

vars == <<pc, target, patch, result, result_len, ret, locals, value, sret, reparsed, hist, declared, kmem, last_parser, heap, held, cpc, frees, last>>

\* the variables of the parse and patch runs, and those of the heap runs
jvars == <<pc, target, patch, result, result_len, ret, locals, value, sret, reparsed, hist, declared, kmem, last_parser>>

hvars == <<heap, held, cpc, frees, last>>

(***************************************************************************)
(* Constants of jsonk.h and the kernel.                                    *)
(***************************************************************************)
JSONK_MAX_DEPTH == 32
JSONK_MAX_STRING_LENGTH == 1048576
JSONK_MAX_ARRAY_SIZE == 10000
JSONK_MAX_OBJECT_MEMBERS == 1000
JSONK_MAX_KEY_LENGTH == 256
\* s64 and unsigned int are narrowed to 31 value bits: as 2^63 - 1, the
\* narrowed S64_MAX ends in the digit 7, and s64 arithmetic wraps at the
\* narrowed width.
S64_MAX == 2147483647
UINT_MAX == 2147483647

EINVAL == 22
ENOMEM == 12
ENOENT == 2
ENOSPC == 28
ENODATA == 61
EOVERFLOW == 75

JSONK_PATCH_SUCCESS == "JSONK_PATCH_SUCCESS"
JSONK_PATCH_ERROR_PARSE == "JSONK_PATCH_ERROR_PARSE"
JSONK_PATCH_ERROR_TYPE == "JSONK_PATCH_ERROR_TYPE"
JSONK_PATCH_ERROR_MEMORY == "JSONK_PATCH_ERROR_MEMORY"
JSONK_PATCH_ERROR_OVERFLOW == "JSONK_PATCH_ERROR_OVERFLOW"
JSONK_PATCH_NO_CHANGE == "JSONK_PATCH_NO_CHANGE"

JSONK_VALUE_NULL == "JSONK_VALUE_NULL"
JSONK_VALUE_BOOLEAN == "JSONK_VALUE_BOOLEAN"
JSONK_VALUE_NUMBER == "JSONK_VALUE_NUMBER"
JSONK_VALUE_STRING == "JSONK_VALUE_STRING"
JSONK_VALUE_ARRAY == "JSONK_VALUE_ARRAY"
JSONK_VALUE_OBJECT == "JSONK_VALUE_OBJECT"

\* The absent reference (a NULL struct jsonk_value *).
NULL == [type |-> "NULL"]

(***************************************************************************)
(* Bytes.                                                                  *)
(***************************************************************************)
DigitChars == <<"0", "1", "2", "3", "4", "5", "6", "7", "8", "9">>
Digits == {DigitChars[i] : i \in 1..10}
DigitValue(c) == (CHOOSE i \in 1..10 : DigitChars[i] = c) - 1
HexDigits == Digits \cup {"a", "b", "c", "d", "e", "f", "A", "B", "C", "D", "E", "F"}
\* the bytes below 0x20 that the model's texts can hold
ControlBytes == {"NUL", "BS", "TAB", "LF", "FF", "CR"}
Whitespace == {" ", "TAB", "LF", "CR"}

Min(a, b) == IF a < b THEN a ELSE b

(***************************************************************************)
(* Token scanner.  A token is [ret, type, start, len, pos]: the return     *)
(* code, the fields of struct jsonk_token (start as a position), and the   *)
(* parser's cursor after the call.                                         *)
(***************************************************************************)
Token(type, start, len, pos) ==
    [ret |-> 0, type |-> type, start |-> start, len |-> len, pos |-> pos]
TokenError(code, pos) ==
    [ret |-> 0 - code, type |-> "JSONK_TOKEN_ERROR", start |-> 0, len |-> 0, pos |-> pos]

RECURSIVE jsonk_skip_whitespace(_, _)
jsonk_skip_whitespace(buffer, pos) ==
    IF pos < Len(buffer) /\ buffer[pos + 1] \in Whitespace
    THEN jsonk_skip_whitespace(buffer, pos + 1)
    ELSE pos

jsonk_peek_char(buffer, pos) ==
    IF pos >= Len(buffer) THEN "NUL" ELSE buffer[pos + 1]

\* the while loop of jsonk_parse_string still runs, with the cursor at pos
Scanning(pos) == [scan |-> pos]

IsScanning(s) == "scan" \in DOMAIN s

\* one pass of the while loop of jsonk_parse_string, from cursor pos: the
\* token it returns or the cursor of the next pass
ScanPass(buffer, start_pos, pos) ==
    IF pos >= Len(buffer) THEN TokenError(EINVAL, pos)
    ELSE LET c == buffer[pos + 1] IN
      IF c = "\"" THEN Token("JSONK_TOKEN_STRING", start_pos, pos - start_pos, pos + 1)
      ELSE IF c = "\\" THEN
        IF pos + 1 >= Len(buffer) THEN TokenError(EINVAL, pos + 1)
        ELSE LET e == buffer[pos + 2] IN
          IF e \in {"\"", "\\", "/", "b", "f", "n", "r", "t"}
          THEN Scanning(pos + 2)
          ELSE IF e = "u"
          THEN IF \A i \in 0..3 : pos + 2 + i < Len(buffer)
                                   /\ buffer[pos + 3 + i] \in HexDigits
               THEN Scanning(pos + 6)
               ELSE TokenError(EINVAL, pos + 2)
          ELSE TokenError(EINVAL, pos + 1)
      ELSE IF c \in ControlBytes THEN TokenError(EINVAL, pos)
      ELSE Scanning(pos + 1)

\* 2^k passes of the loop, or as many as it makes
RECURSIVE ScanPasses(_, _, _, _)
ScanPasses(buffer, start_pos, s, k) ==
    IF ~IsScanning(s) THEN s
    ELSE IF k = 0 THEN ScanPass(buffer, start_pos, s.scan)
    ELSE CHOOSE r \in {ScanPasses(buffer, start_pos, t, k - 1) :
                          t \in {ScanPasses(buffer, start_pos, s, k - 1)}} : TRUE

\* the passes of the loop until it returns
RECURSIVE ScanRun(_, _, _, _)
ScanRun(buffer, start_pos, s, k) ==
    IF ~IsScanning(s) THEN s
    ELSE ScanRun(buffer, start_pos, ScanPasses(buffer, start_pos, s, k), k + 1)

\* the while loop of jsonk_parse_string, from cursor pos
jsonk_parse_string_scan(buffer, start_pos, pos) == ScanRun(buffer, start_pos, Scanning(pos), 0)

jsonk_parse_string(buffer, pos) ==
    jsonk_parse_string_scan(buffer, pos + 1, pos + 1)

\* the digit loops of jsonk_parse_number: the position after the run of digits
RECURSIVE SkipDigits(_, _)
SkipDigits(buffer, pos) ==
    IF pos < Len(buffer) /\ buffer[pos + 1] \in Digits
    THEN SkipDigits(buffer, pos + 1)
    ELSE pos

\* "Set token"
NumberToken(start_pos, pos) ==
    Token("JSONK_TOKEN_NUMBER", start_pos, pos - start_pos, pos)

\* "Must have at least one digit in exponent", "Parse exponent digits"
NumberExponentDigits(buffer, start_pos, pos) ==
    IF pos >= Len(buffer) \/ buffer[pos + 1] \notin Digits THEN TokenError(EINVAL, pos)
    ELSE NumberToken(start_pos, SkipDigits(buffer, pos))

\* "Parse optional exponent"
NumberExponent(buffer, start_pos, pos) ==
    IF pos < Len(buffer) /\ buffer[pos + 1] \in {"e", "E"}
    THEN IF pos + 1 < Len(buffer) /\ buffer[pos + 2] \in {"+", "-"}
         THEN NumberExponentDigits(buffer, start_pos, pos + 2)
         ELSE NumberExponentDigits(buffer, start_pos, pos + 1)
    ELSE NumberToken(start_pos, pos)

\* "Parse optional fractional part"
NumberFraction(buffer, start_pos, pos) ==
    IF pos < Len(buffer) /\ buffer[pos + 1] = "."
    THEN IF pos + 1 >= Len(buffer) \/ buffer[pos + 2] \notin Digits
         THEN TokenError(EINVAL, pos + 1)
         ELSE NumberExponent(buffer, start_pos, SkipDigits(buffer, pos + 1))
    ELSE NumberExponent(buffer, start_pos, pos)

\* "Parse integer part"
NumberInteger(buffer, start_pos, pos) ==
    IF jsonk_peek_char(buffer, pos) = "0"
    THEN IF jsonk_peek_char(buffer, pos + 1) \in Digits
         THEN TokenError(EINVAL, pos + 1)
         ELSE NumberFraction(buffer, start_pos, pos + 1)
    ELSE IF jsonk_peek_char(buffer, pos) \in Digits
    THEN NumberFraction(buffer, start_pos, SkipDigits(buffer, pos + 1))
    ELSE TokenError(EINVAL, pos)

jsonk_parse_number(buffer, start_pos) ==
    IF jsonk_peek_char(buffer, start_pos) = "-"
    THEN NumberInteger(buffer, start_pos, start_pos + 1)
    ELSE NumberInteger(buffer, start_pos, start_pos)

Matches(buffer, pos, lit) ==
    /\ pos + Len(lit) <= Len(buffer)
    /\ \A i \in 1..Len(lit) : buffer[pos + i] = lit[i]

jsonk_parse_literal(buffer, pos) ==
    IF Matches(buffer, pos, <<"t", "r", "u", "e">>)
    THEN Token("JSONK_TOKEN_TRUE", pos, 4, pos + 4)
    ELSE IF Matches(buffer, pos, <<"f", "a", "l", "s", "e">>)
    THEN Token("JSONK_TOKEN_FALSE", pos, 5, pos + 5)
    ELSE IF Matches(buffer, pos, <<"n", "u", "l", "l">>)
    THEN Token("JSONK_TOKEN_NULL", pos, 4, pos + 4)
    ELSE TokenError(EINVAL, pos)

\* the switch of jsonk_next_token on the byte c at the cursor
TokenAt(buffer, pos, c) ==
    CASE c = "{" -> Token("JSONK_TOKEN_OBJECT_START", pos, 1, pos + 1)
      [] c = "}" -> Token("JSONK_TOKEN_OBJECT_END", pos, 1, pos + 1)
      [] c = "[" -> Token("JSONK_TOKEN_ARRAY_START", pos, 1, pos + 1)
      [] c = "]" -> Token("JSONK_TOKEN_ARRAY_END", pos, 1, pos + 1)
      [] c = ":" -> Token("JSONK_TOKEN_COLON", pos, 1, pos + 1)
      [] c = "," -> Token("JSONK_TOKEN_COMMA", pos, 1, pos + 1)
      [] c = "\"" -> jsonk_parse_string(buffer, pos)
      [] c = "-" \/ c \in Digits -> jsonk_parse_number(buffer, pos)
      [] c \in {"t", "f", "n"} -> jsonk_parse_literal(buffer, pos)
      [] OTHER -> TokenError(EINVAL, pos)

\* jsonk_next_token once the whitespace is skipped
TokenFrom(buffer, pos) ==
    IF pos >= Len(buffer) THEN TokenError(ENODATA, pos)
    ELSE TokenAt(buffer, pos, buffer[pos + 1])

jsonk_next_token(buffer, pos0) ==
    TokenFrom(buffer, jsonk_skip_whitespace(buffer, pos0))

(***************************************************************************)
(* Allocator.  mem is the state of the kernel allocator as the library     *)
(* sees it: values is the number of live struct jsonk_value, blocks the    *)
(* number of other live allocations (members, elements, keys, string and   *)
(* scratch buffers).  When armed, the allocation after left successful     *)
(* ones returns NULL; the later ones succeed.                              *)
(***************************************************************************)
Mem(armed, left, values, blocks) ==
    [armed |-> armed, left |-> left, values |-> values, blocks |-> blocks]

\* kmem_cache_alloc / kmalloc / vmalloc returns NULL on the next call
AllocFails(mem) == mem.armed /\ mem.left = 0

\* the state after the allocation that returned NULL
AllocFailed(mem) == [mem EXCEPT !.armed = FALSE]

\* the state after a kmem_cache_alloc of a struct jsonk_value
AllocValue(mem) ==
    [mem EXCEPT !.left = IF mem.armed THEN @ - 1 ELSE @, !.values = @ + 1]

\* the state after any other allocation
AllocBlock(mem) ==
    [mem EXCEPT !.left = IF mem.armed THEN @ - 1 ELSE @, !.blocks = @ + 1]

\* kmem_cache_free(jsonk_value_cache, value)
FreeValue(mem) == [mem EXCEPT !.values = @ - 1]

\* kfree / vfree / kmem_cache_free of a member or an element
FreeBlock(mem) == [mem EXCEPT !.blocks = @ - 1]

(***************************************************************************)
(* Value creation.  A constructor returns [value, mem]: the node (or NULL) *)
(* and the allocator after the call.                                       *)
(***************************************************************************)
Created(v, mem) == [value |-> v, mem |-> mem]

\* "memset(value, 0, sizeof(struct jsonk_value)); ... value->type = type;"
ValueOfType(type) ==
    CASE type = JSONK_VALUE_OBJECT -> [type |-> type, members |-> <<>>, size |-> 0]
      [] type = JSONK_VALUE_ARRAY -> [type |-> type, elements |-> <<>>, size |-> 0]
      [] type = JSONK_VALUE_STRING -> [type |-> type, data |-> <<>>, len |-> 0]
      [] type = JSONK_VALUE_NUMBER ->
            [type |-> type, integer |-> 0, fraction |-> 0,
             is_negative |-> FALSE, is_integer |-> FALSE]
      [] type = JSONK_VALUE_BOOLEAN -> [type |-> type, boolean |-> FALSE]
      [] OTHER -> [type |-> type]

jsonk_value_create_tracked(mem, type) ==
    IF AllocFails(mem) THEN Created(NULL, AllocFailed(mem))
    ELSE Created(ValueOfType(type), AllocValue(mem))

jsonk_value_create(mem, type) == jsonk_value_create_tracked(mem, type)

jsonk_value_create_null(mem) == jsonk_value_create(mem, JSONK_VALUE_NULL)

\* "value->u.boolean = val;" when the node was allocated
BooleanSet(created, val) ==
    IF created.value = NULL THEN created
    ELSE [created EXCEPT !.value.boolean = val]

jsonk_value_create_boolean(mem, val) ==
    BooleanSet(jsonk_value_create(mem, JSONK_VALUE_BOOLEAN), val)

\* an unescape loop that copies the bytes as they are
UnescapeNothing(str, len, i, out) == [ok |-> TRUE, data |-> SubSeq(str, 1, len)]

\* the unescape loop of jsonk_value_create_string_tracked, from index i with
\* the bytes out already produced: [ok, data]
RECURSIVE UnescapeLoop(_, _, _, _)
UnescapeLoop(str, len, i, out) ==
    IF i >= len THEN [ok |-> TRUE, data |-> out]
    ELSE LET c == str[i + 1] IN
      IF c = "\\" /\ i + 1 < len
      THEN LET escaped == str[i + 2] IN
        CASE escaped = "\"" -> UnescapeLoop(str, len, i + 2, Append(out, "\""))
          [] escaped = "\\" -> UnescapeLoop(str, len, i + 2, Append(out, "\\"))
          [] escaped = "/" -> UnescapeLoop(str, len, i + 2, Append(out, "/"))
          [] escaped = "b" -> UnescapeLoop(str, len, i + 2, Append(out, "BS"))
          [] escaped = "f" -> UnescapeLoop(str, len, i + 2, Append(out, "FF"))
          [] escaped = "n" -> UnescapeLoop(str, len, i + 2, Append(out, "LF"))
          [] escaped = "r" -> UnescapeLoop(str, len, i + 2, Append(out, "CR"))
          [] escaped = "t" -> UnescapeLoop(str, len, i + 2, Append(out, "TAB"))
          [] escaped = "u" ->
                IF (i + 1) + 4 < len
                THEN UnescapeLoop(str, len, i + 6,
                                  out \o <<"\\", "u">> \o SubSeq(str, i + 3, i + 6))
                ELSE [ok |-> FALSE, data |-> <<>>]
          [] OTHER -> [ok |-> FALSE, data |-> <<>>]
      ELSE UnescapeLoop(str, len, i + 1, Append(out, c))

\* "Resize buffer to actual size needed": a failed resize keeps the buffer
StringResized(mem, unescaped_len, len) ==
    IF unescaped_len >= len THEN mem
    ELSE IF AllocFails(mem) THEN AllocFailed(mem)
    ELSE FreeBlock(AllocBlock(mem))

\* the constructor after its two allocations, u the outcome of the unescape
StringUnescaped(mem, len, u) ==
    IF ~u.ok THEN Created(NULL, FreeValue(FreeBlock(mem)))
    ELSE Created([ValueOfType(JSONK_VALUE_STRING) EXCEPT
                      !.data = u.data, !.len = Len(u.data)],
                 StringResized(mem, Len(u.data), len))

\* string_count is parser->string_count, 0 when the parser is NULL
jsonk_value_create_string_tracked(mem, str, len, string_count) ==
    IF len > JSONK_MAX_STRING_LENGTH THEN Created(NULL, mem)
    ELSE IF string_count >= JSONK_MAX_ARRAY_SIZE THEN Created(NULL, mem)
    ELSE IF AllocFails(mem) THEN Created(NULL, AllocFailed(mem))
    ELSE IF AllocFails(AllocValue(mem))
    THEN Created(NULL, FreeValue(AllocFailed(AllocValue(mem))))
    ELSE StringUnescaped(AllocBlock(AllocValue(mem)), len, UnescapeLoop(str, len, 0, <<>>))

\* simple_strtoull: [value, end] of the decimal digits from index i
RECURSIVE simple_strtoull(_, _, _, _)
simple_strtoull(str, len, i, acc) ==
    IF i < len /\ str[i + 1] \in Digits
    THEN simple_strtoull(str, len, i + 1, acc * 10 + DigitValue(str[i + 1]))
    ELSE [value |-> acc, end |-> i]

simple_strtoll(str, len) ==
    IF len > 0 /\ str[1] = "-"
    THEN LET r == simple_strtoull(str, len, 1, 0) IN [value |-> 0 - r.value, end |-> r.end]
    ELSE simple_strtoull(str, len, 0, 0)

S64_MIN == 0 - S64_MAX - 1

\* the s64 with the 16-bit halves hi and lo (two's complement)
S64Of(hi, lo) == (IF hi >= 32768 THEN hi - 65536 ELSE hi) * 65536 + lo

\* "int_part * 10 + (num_str[i] - '0')" in s64: the kernel is built with
\* -fno-strict-overflow, so the signed arithmetic wraps
TimesTenPlus(int_part, digit) ==
    S64Of((((int_part \div 65536) * 10) + (((int_part % 65536) * 10 + digit) \div 65536)) % 65536,
          ((int_part % 65536) * 10 + digit) % 65536)

\* "negative ? -int_part : int_part" in s64
Negated(x) == IF x = S64_MIN THEN S64_MIN ELSE 0 - x

\* "Parse digits before decimal": [int_part, i]
RECURSIVE IntPartLoop(_, _, _, _)
IntPartLoop(str, len, i, int_part) ==
    IF i < len /\ str[i + 1] \in Digits
    THEN IF int_part > S64_MAX \div 10
         THEN [int_part |-> S64_MAX, i |-> i]
         ELSE IntPartLoop(str, len, i + 1, TimesTenPlus(int_part, DigitValue(str[i + 1])))
    ELSE [int_part |-> int_part, i |-> i]

\* "Parse fractional part": the value of at most nine digits from index i
RECURSIVE FracPartLoop(_, _, _, _, _)
FracPartLoop(str, len, i, frac_part, frac_digits) ==
    IF i < len /\ str[i + 1] \in Digits /\ frac_digits < 9
    THEN IF frac_part > UINT_MAX \div 10
         THEN frac_part
         ELSE FracPartLoop(str, len, i + 1,
                           frac_part * 10 + DigitValue(str[i + 1]), frac_digits + 1)
    ELSE frac_part

\* the scan of the literal into the number fields; NULL when the integer
\* literal was not consumed whole
NumberScan(str, len) ==
    LET ePos == {i \in 1..len : str[i] \in {"e", "E"}}
        firstE == IF ePos = {} THEN len + 1 ELSE CHOOSE i \in ePos : \A j \in ePos : i <= j
        has_exponent == ePos # {}
        has_decimal == \E i \in 1..(firstE - 1) : str[i] = "."
        base == ValueOfType(JSONK_VALUE_NUMBER)
    IN  IF has_decimal \/ has_exponent
        THEN LET negative == len > 0 /\ str[1] = "-"
                 ip == IntPartLoop(str, len, IF negative THEN 1 ELSE 0, 0)
                 frac == IF ip.i < len /\ str[ip.i + 1] = "."
                         THEN FracPartLoop(str, len, ip.i + 1, 0, 0)
                         ELSE 0
             IN  [base EXCEPT !.is_integer = FALSE,
                              !.integer = IF negative THEN Negated(ip.int_part) ELSE ip.int_part,
                              !.is_negative = negative,
                              !.fraction = frac]
        ELSE LET r == simple_strtoll(str, len) IN
             IF r.end # len THEN NULL
             ELSE [base EXCEPT !.is_integer = TRUE,
                               !.integer = r.value,
                               !.is_negative = (r.value < 0)]

\* the constructor after its two allocations, v the outcome of the scan:
\* num_str is freed on both paths
NumberScanned(mem, v) ==
    IF v = NULL THEN Created(NULL, FreeValue(FreeBlock(mem)))
    ELSE Created(v, FreeBlock(mem))

jsonk_value_create_number(mem, str, len) ==
    IF AllocFails(mem) THEN Created(NULL, AllocFailed(mem))
    ELSE IF AllocFails(AllocValue(mem))
    THEN Created(NULL, FreeValue(AllocFailed(AllocValue(mem))))
    ELSE NumberScanned(AllocBlock(AllocValue(mem)), NumberScan(str, len))

(***************************************************************************)
(* Release.  A tree of this part holds the only reference to each of its   *)
(* nodes, so jsonk_value_put on it reaches zero and frees it.              *)
(***************************************************************************)
RECURSIVE jsonk_value_free_internal(_, _)
RECURSIVE FreeMembers(_, _, _)
RECURSIVE FreeElements(_, _, _)

jsonk_value_put(mem, v) ==
    IF v = NULL THEN mem ELSE jsonk_value_free_internal(mem, v)

\* list_for_each_entry_safe over the members, from the i-th: key, value, member
FreeMembers(mem, members, i) ==
    IF i > Len(members) THEN mem
    ELSE FreeMembers(FreeBlock(jsonk_value_put(FreeBlock(mem), members[i].value)),
                     members, i + 1)

\* list_for_each_entry_safe over the elements, from the i-th: value, element
FreeElements(mem, elements, i) ==
    IF i > Len(elements) THEN mem
    ELSE FreeElements(FreeBlock(jsonk_value_put(mem, elements[i])), elements, i + 1)

jsonk_value_free_internal(mem, v) ==
    CASE v.type = JSONK_VALUE_STRING -> FreeValue(FreeBlock(mem))
      [] v.type = JSONK_VALUE_OBJECT -> FreeValue(FreeMembers(mem, v.members, 1))
      [] v.type = JSONK_VALUE_ARRAY -> FreeValue(FreeElements(mem, v.elements, 1))
      [] OTHER -> FreeValue(mem)

(***************************************************************************)
(* Object and array manipulation.  An operation that returns a code and    *)
(* changes its object returns [ret, obj, mem].                             *)
(***************************************************************************)
Changed(r, obj, mem) == [ret |-> r, obj |-> obj, mem |-> mem]

\* key is the caller's key buffer; the member's key is its first key_len bytes
jsonk_object_add_member_tracked(mem, obj, key, key_len, val) ==
    IF obj.size >= JSONK_MAX_OBJECT_MEMBERS THEN Changed(0 - ENOSPC, obj, mem)
    ELSE IF key_len > JSONK_MAX_KEY_LENGTH THEN Changed(0 - EINVAL, obj, mem)
    ELSE IF AllocFails(mem) THEN Changed(0 - ENOMEM, obj, AllocFailed(mem))
    ELSE IF AllocFails(AllocBlock(mem))
    THEN Changed(0 - ENOMEM, obj, FreeBlock(AllocFailed(AllocBlock(mem))))
    ELSE Changed(0,
                 [obj EXCEPT
                    !.members = Append(@, [key |-> SubSeq(key, 1, key_len),
                                           key_len |-> key_len,
                                           value |-> val]),
                    !.size = @ + 1],
                 AllocBlock(AllocBlock(mem)))

jsonk_object_add_member(mem, obj, key, key_len, val) ==
    jsonk_object_add_member_tracked(mem, obj, key, key_len, val)

\* the index in the member list of the first member with the key, 0 if none
jsonk_object_find_member(obj, key, key_len) ==
    LET hits == {i \in 1..Len(obj.members) :
                    /\ obj.members[i].key_len = key_len
                    /\ obj.members[i].key = SubSeq(key, 1, key_len)}
    IN  IF hits = {} THEN 0 ELSE CHOOSE i \in hits : \A j \in hits : i <= j

RemoveAt(seq, i) == SubSeq(seq, 1, i - 1) \o SubSeq(seq, i + 1, Len(seq))

\* a removal that leaves the cached size as it was
MemberUnlinked(mem, obj, m) ==
    Changed(0, [obj EXCEPT !.members = RemoveAt(@, m)],
            FreeBlock(jsonk_value_put(FreeBlock(mem), obj.members[m].value)))


\* the removal of the m-th member: its key, its value and the member are freed
MemberRemoved(mem, obj, m) ==
    Changed(0, [obj EXCEPT !.members = RemoveAt(@, m), !.size = @ - 1],
            FreeBlock(jsonk_value_put(FreeBlock(mem), obj.members[m].value)))

jsonk_object_remove_member(mem, obj, key, key_len) ==
    IF jsonk_object_find_member(obj, key, key_len) = 0 THEN Changed(0 - ENOENT, obj, mem)
    ELSE MemberRemoved(mem, obj, jsonk_object_find_member(obj, key, key_len))

jsonk_array_add_element_tracked(mem, arr, val) ==
    IF arr.size >= JSONK_MAX_ARRAY_SIZE THEN Changed(0 - ENOSPC, arr, mem)
    ELSE IF AllocFails(mem) THEN Changed(0 - ENOMEM, arr, AllocFailed(mem))
    ELSE Changed(0, [arr EXCEPT !.elements = Append(@, val), !.size = @ + 1],
                 AllocBlock(mem))

(***************************************************************************)
(* Recursive parser.  parser is struct jsonk_parser over the buffer: its   *)
(* cursor pos, its depth, its string_count, and with them the allocator    *)
(* state mem its allocations act on.  A parse function returns             *)
(* [value, parser]: the tree (or NULL) and the parser as it leaves it.     *)
(*                                                                         *)
(* The invocations of jsonk_parse_value in progress are kept on an         *)
(* explicit stack.  Where jsonk_parse_object and jsonk_parse_array call    *)
(* jsonk_parse_value they return [call, parser] instead: the parser the    *)
(* call is made with, and what the caller holds across it.  The call is    *)
(* made, and its result handed to the statement after it, by               *)
(* ParseStep.                                                              *)
(***************************************************************************)
Parsed(v, parser) == [value |-> v, parser |-> parser]

\* what jsonk_parse_object holds across its call of jsonk_parse_value
ObjectFrame(object_value, key, key_len) ==
    [type |-> JSONK_VALUE_OBJECT, container |-> object_value, key |-> key,
     key_len |-> key_len]

\* what jsonk_parse_array holds across its call of jsonk_parse_value
ArrayFrame(array_value) ==
    [type |-> JSONK_VALUE_ARRAY, container |-> array_value, key |-> <<>>, key_len |-> 0]

\* a call of jsonk_parse_value(parser) that is still to be made
Recurse(parser, frame) == [call |-> frame, parser |-> parser]

IsCall(r) == "call" \in DOMAIN r

\* jsonk_parser_init
jsonk_parser_init(mem) == [pos |-> 0, depth |-> 0, string_count |-> 0, mem |-> mem]

\* the parser with its cursor behind a token
At(parser, pos) == [parser EXCEPT !.pos = pos]

\* the parser after jsonk_value_put(v)
Put(parser, v) == [parser EXCEPT !.mem = jsonk_value_put(@, v)]

\* a failure return that releases the container under construction
Abandoned(parser, pos, container) == Parsed(NULL, Put(At(parser, pos), container))

\* a failure return that frees the key buffer and releases the object
AbandonedWithKey(parser, pos, object_value) ==
    Parsed(NULL, Put([parser EXCEPT !.pos = pos, !.mem = FreeBlock(@)], object_value))

RECURSIVE jsonk_parse_object_loop(_, _, _, _)
RECURSIVE jsonk_parse_array_loop(_, _, _)

\* "Get next key": the token after a comma
ObjectNextKey(buffer, parser, object_value, token) ==
    IF token.ret < 0 THEN Abandoned(parser, token.pos, object_value)
    ELSE jsonk_parse_object_loop(buffer, At(parser, token.pos), object_value, token)

\* "Check for comma or end of object"
ObjectAfterMember(buffer, parser, object_value, token) ==
    IF token.ret < 0 THEN Abandoned(parser, token.pos, object_value)
    ELSE IF token.type = "JSONK_TOKEN_OBJECT_END"
    THEN Parsed(object_value, At(parser, token.pos))
    ELSE IF token.type # "JSONK_TOKEN_COMMA"
    THEN Abandoned(parser, token.pos, object_value)
    ELSE ObjectNextKey(buffer, At(parser, token.pos), object_value,
                       jsonk_next_token(buffer, token.pos))

\* after jsonk_object_add_member_tracked returned added: the key buffer is
\* freed, and on failure the member value and the object are released
ObjectAfterAdd(buffer, parser, member_value, added) ==
    IF added.ret < 0
    THEN Parsed(NULL, Put(Put([parser EXCEPT !.mem = FreeBlock(added.mem)],
                              member_value),
                          added.obj))
    ELSE ObjectAfterMember(buffer, [parser EXCEPT !.mem = FreeBlock(added.mem)],
                           added.obj, jsonk_next_token(buffer, parser.pos))

\* after jsonk_parse_value returned member; key_len is token.len, and the
\* token is by now the colon
ObjectAfterValue(buffer, object_value, key, key_len, member) ==
    IF member.value = NULL
    THEN AbandonedWithKey(member.parser, member.parser.pos, object_value)
    ELSE ObjectAfterAdd(buffer, member.parser, member.value,
                        jsonk_object_add_member_tracked(member.parser.mem, object_value,
                                                        key, key_len, member.value))

\* "Expect colon": the colon is scanned into the same struct jsonk_token;
\* then "member_value = jsonk_parse_value(parser)"
ObjectAfterKey(buffer, parser, object_value, key, colon) ==
    IF colon.ret < 0 \/ colon.type # "JSONK_TOKEN_COLON"
    THEN AbandonedWithKey(parser, colon.pos, object_value)
    ELSE Recurse(At(parser, colon.pos), ObjectFrame(object_value, key, colon.len))

\* the "Parse key-value pairs" loop, entered with the token that should be a
\* key; "if (!key) return NULL;" returns without releasing object_value
jsonk_parse_object_loop(buffer, parser, object_value, token) ==
    IF token.type # "JSONK_TOKEN_STRING" THEN Abandoned(parser, parser.pos, object_value)
    ELSE IF AllocFails(parser.mem)
    THEN Parsed(NULL, [parser EXCEPT !.mem = AllocFailed(@)])
    ELSE ObjectAfterKey(buffer, [parser EXCEPT !.mem = AllocBlock(@)], object_value,
                        \* key[token.len] = '\0'
                        SubSeq(buffer, token.start + 1, token.start + token.len)
                          \o <<"NUL">>,
                        jsonk_next_token(buffer, parser.pos))

\* "Check for empty object"
ObjectAfterOpen(buffer, parser, object_value, token) ==
    IF token.ret < 0 THEN Abandoned(parser, token.pos, object_value)
    ELSE IF token.type = "JSONK_TOKEN_OBJECT_END"
    THEN Parsed(object_value, At(parser, token.pos))
    ELSE jsonk_parse_object_loop(buffer, At(parser, token.pos), object_value, token)

\* "Skip the opening brace"
ObjectOpened(buffer, parser, object_value, open) ==
    IF open.ret < 0 \/ open.type # "JSONK_TOKEN_OBJECT_START"
    THEN Abandoned(parser, open.pos, object_value)
    ELSE ObjectAfterOpen(buffer, At(parser, open.pos), object_value,
                         jsonk_next_token(buffer, open.pos))

\* jsonk_parse_object after jsonk_value_create returned created
ObjectCreated(buffer, parser, created) ==
    IF created.value = NULL THEN Parsed(NULL, [parser EXCEPT !.mem = created.mem])
    ELSE ObjectOpened(buffer, [parser EXCEPT !.mem = created.mem], created.value,
                      jsonk_next_token(buffer, parser.pos))

jsonk_parse_object(buffer, parser) ==
    ObjectCreated(buffer, parser, jsonk_value_create(parser.mem, JSONK_VALUE_OBJECT))

\* "Look ahead for comma or end of array"
ArrayAfterElement(buffer, parser, array_value, token) ==
    IF token.ret < 0 THEN Abandoned(parser, token.pos, array_value)
    ELSE IF token.type = "JSONK_TOKEN_ARRAY_END"
    THEN Parsed(array_value, At(parser, token.pos))
    ELSE IF token.type # "JSONK_TOKEN_COMMA"
    THEN Abandoned(parser, token.pos, array_value)
    ELSE jsonk_parse_array_loop(buffer, At(parser, token.pos), array_value)

\* after jsonk_array_add_element_tracked returned added
ArrayAfterAdd(buffer, parser, element_value, added) ==
    IF added.ret < 0
    THEN Parsed(NULL, Put(Put([parser EXCEPT !.mem = added.mem], element_value),
                          added.obj))
    ELSE ArrayAfterElement(buffer, [parser EXCEPT !.mem = added.mem], added.obj,
                           jsonk_next_token(buffer, parser.pos))

\* after jsonk_parse_value returned element
ArrayAfterValue(buffer, array_value, element) ==
    IF element.value = NULL
    THEN Abandoned(element.parser, element.parser.pos, array_value)
    ELSE ArrayAfterAdd(buffer, element.parser, element.value,
                       jsonk_array_add_element_tracked(element.parser.mem, array_value,
                                                       element.value))

\* the "Parse array elements" loop after jsonk_skip_whitespace left the cursor
\* at pos; then "element_value = jsonk_parse_value(parser)"
ArrayLoopAt(buffer, parser, array_value, pos) ==
    IF pos < Len(buffer) /\ buffer[pos + 1] = "]"
    THEN Parsed(array_value, At(parser, pos + 1))
    ELSE Recurse(At(parser, pos), ArrayFrame(array_value))

jsonk_parse_array_loop(buffer, parser, array_value) ==
    ArrayLoopAt(buffer, parser, array_value, jsonk_skip_whitespace(buffer, parser.pos))

\* "Consume the opening bracket"
ArrayOpened(buffer, parser, array_value, open) ==
    IF open.ret < 0 \/ open.type # "JSONK_TOKEN_ARRAY_START"
    THEN Abandoned(parser, open.pos, array_value)
    ELSE jsonk_parse_array_loop(buffer, At(parser, open.pos), array_value)

\* jsonk_parse_array after jsonk_value_create returned created
ArrayCreated(buffer, parser, created) ==
    IF created.value = NULL THEN Parsed(NULL, [parser EXCEPT !.mem = created.mem])
    ELSE ArrayOpened(buffer, [parser EXCEPT !.mem = created.mem], created.value,
                     jsonk_next_token(buffer, parser.pos))

jsonk_parse_array(buffer, parser) ==
    ArrayCreated(buffer, parser, jsonk_value_create(parser.mem, JSONK_VALUE_ARRAY))

\* a leaf of jsonk_parse_value: the constructor's node and allocator state
Leaf(parser, created) == Parsed(created.value, [parser EXCEPT !.mem = created.mem])

\* the string leaf: "parser->string_count++" when the node was created
StringLeaf(parser, created) ==
    Parsed(created.value,
           [parser EXCEPT !.mem = created.mem,
                          !.string_count = IF created.value # NULL THEN @ + 1 ELSE @])

\* the bytes of a token
TokenBytes(buffer, token) == SubSeq(buffer, token.start + 1, token.start + token.len)

\* the switch of jsonk_parse_value on the token's type
ValueOfToken(buffer, parser, token) ==
    CASE token.type = "JSONK_TOKEN_OBJECT_START" ->
            jsonk_parse_object(buffer, At(parser, token.pos - token.len))
      [] token.type = "JSONK_TOKEN_ARRAY_START" ->
            jsonk_parse_array(buffer, At(parser, token.pos - token.len))
      [] token.type = "JSONK_TOKEN_STRING" ->
            StringLeaf(At(parser, token.pos),
                       jsonk_value_create_string_tracked(parser.mem,
                                                         TokenBytes(buffer, token),
                                                         token.len, parser.string_count))
      [] token.type = "JSONK_TOKEN_NUMBER" ->
            Leaf(At(parser, token.pos),
                 jsonk_value_create_number(parser.mem, TokenBytes(buffer, token),
                                           token.len))
      [] token.type = "JSONK_TOKEN_TRUE" ->
            Leaf(At(parser, token.pos), jsonk_value_create_boolean(parser.mem, TRUE))
      [] token.type = "JSONK_TOKEN_FALSE" ->
            Leaf(At(parser, token.pos), jsonk_value_create_boolean(parser.mem, FALSE))
      [] token.type = "JSONK_TOKEN_NULL" ->
            Leaf(At(parser, token.pos), jsonk_value_create_null(parser.mem))
      [] OTHER -> Parsed(NULL, At(parser, token.pos))

\* "parser->depth--; return value;", once the switch has its value
Leave(r) == IF IsCall(r) THEN r ELSE [r EXCEPT !.parser.depth = @ - 1]

\* jsonk_parse_value after "parser->depth++" and jsonk_next_token
ValueAfterToken(buffer, parser, token) ==
    IF token.ret < 0 THEN Leave(Parsed(NULL, At(parser, token.pos)))
    ELSE Leave(ValueOfToken(buffer, parser, token))

\* a depth test that lets one more invocation in
ParseValueOneDeeper(buffer, parser) ==
    IF parser.depth > JSONK_MAX_DEPTH THEN Parsed(NULL, parser)
    ELSE ValueAfterToken(buffer, [parser EXCEPT !.depth = @ + 1],
                         jsonk_next_token(buffer, parser.pos))

jsonk_parse_value(buffer, parser) ==
    IF parser.depth >= JSONK_MAX_DEPTH THEN Parsed(NULL, parser)
    ELSE ValueAfterToken(buffer, [parser EXCEPT !.depth = @ + 1],
                         jsonk_next_token(buffer, parser.pos))

\* the statement after the call of jsonk_parse_value that left frame
Resume(buffer, frame, child) ==
    IF frame.type = JSONK_VALUE_OBJECT
    THEN ObjectAfterValue(buffer, frame.container, frame.key, frame.key_len, child)
    ELSE ArrayAfterValue(buffer, frame.container, child)

\* the parse in progress: the frames of the callers, innermost first, and
\* either the call to make or the value that was returned
Running(stack, at) == [stack |-> stack, at |-> at]

ParseDone(s) == ~IsCall(s.at) /\ s.stack = <<>>

\* one call of jsonk_parse_value or one return from it; a return into a
\* container that is thereby complete (or abandoned) is followed by the
\* "parser->depth--" of the invocation that called jsonk_parse_object or
\* jsonk_parse_array
ParseStep(buffer, s) ==
    CASE IsCall(s.at) ->
            Running(<<s.at.call>> \o s.stack, jsonk_parse_value(buffer, s.at.parser))
      [] s.stack = <<>> -> s
      [] OTHER -> Running(Tail(s.stack), Leave(Resume(buffer, Head(s.stack), s.at)))

\* 2^k steps, the second half from the state the first half ends in
RECURSIVE ParseSteps(_, _, _)
ParseSteps(buffer, s, k) ==
    IF k = 0 \/ ParseDone(s) THEN ParseStep(buffer, s)
    ELSE CHOOSE r \in {ParseSteps(buffer, t, k - 1) :
                          t \in {ParseSteps(buffer, s, k - 1)}} : TRUE

\* steps until the outermost invocation has returned
RECURSIVE ParseRun(_, _, _)
ParseRun(buffer, s, k) ==
    IF ParseDone(s) THEN s.at ELSE ParseRun(buffer, ParseSteps(buffer, s, k), k + 1)

\* a parse that fails unless the value ends where the text ends
ParseWhole(json_str, json_len, mem) ==
    IF json_len = 0 THEN Parsed(NULL, jsonk_parser_init(mem))
    ELSE CHOOSE r \in {IF p.value # NULL /\ p.parser.pos < json_len THEN Parsed(NULL, p.parser) ELSE p :
                          p \in {ParseRun(json_str,
                                          Running(<<>>, jsonk_parse_value(json_str, jsonk_parser_init(mem))), 0)}} : TRUE


\* the call returns the tree; the parser it leaves is kept for the properties
jsonk_parse(json_str, json_len, mem) ==
    IF json_len = 0 THEN Parsed(NULL, jsonk_parser_init(mem))
    ELSE ParseRun(json_str,
                  Running(<<>>, jsonk_parse_value(json_str, jsonk_parser_init(mem))), 0)

(***************************************************************************)
(* Serializer.  jsonk_serialize(value, buf, base, buffer_size) renders     *)
(* into the buffer_size bytes that start at offset base of the caller's    *)
(* buffer buf (the C argument is buffer = buf + base) and returns          *)
(* [ret, written, buf].  The rendering state is [ret, pos, buf].           *)
(***************************************************************************)
\* store the bytes at offset at, at + 1, ... of the buffer
\* (every store of the code is guarded to lie inside the buffer)
Write(buf, at, bytes) ==
    SubSeq(buf, 1, at) \o bytes \o SubSeq(buf, at + Len(bytes) + 1, Len(buf))

\* the bound test without the spare byte
EmitToTheLastByte(st, base, buffer_size, bytes) ==
    IF st.ret < 0 THEN st
    ELSE IF st.pos + Len(bytes) > buffer_size THEN [st EXCEPT !.ret = 0 - EOVERFLOW]
    ELSE [ret |-> 0, pos |-> st.pos + Len(bytes),
          buf |-> Write(st.buf, base + st.pos, bytes)]

\* "if (pos + n >= buffer_size) return -EOVERFLOW;" and then the n stores
Emit(st, base, buffer_size, bytes) ==
    IF st.ret < 0 THEN st
    ELSE IF st.pos + Len(bytes) >= buffer_size THEN [st EXCEPT !.ret = 0 - EOVERFLOW]
    ELSE [ret |-> 0, pos |-> st.pos + Len(bytes),
          buf |-> Write(st.buf, base + st.pos, bytes)]

RECURSIVE UnsignedDecimal(_)
UnsignedDecimal(n) ==
    IF n < 10 THEN <<DigitChars[n + 1]>>
    ELSE Append(UnsignedDecimal(n \div 10), DigitChars[(n % 10) + 1])

\* the text of "%lld"
SignedDecimal(n) ==
    IF n = S64_MIN
    THEN <<"-">> \o Append(UnsignedDecimal(S64_MAX \div 10), DigitChars[(S64_MAX % 10) + 2])
    ELSE IF n < 0 THEN <<"-">> \o UnsignedDecimal(0 - n) ELSE UnsignedDecimal(n)

\* the text the snprintf calls of the number case format
NumberText(v) ==
    LET shown == IF v.is_negative THEN Negated(v.integer) ELSE v.integer IN
    IF v.is_integer THEN SignedDecimal(shown)
    ELSE SignedDecimal(shown) \o <<".">> \o UnsignedDecimal(v.fraction)

\* a formatting that stores the whole text and its NUL, whatever the size
SprintfUnbounded(st, base, buffer_size, text) ==
    IF st.pos + Len(text) >= buffer_size
    THEN [ret |-> 0 - EOVERFLOW, pos |-> st.pos,
          buf |-> Write(st.buf, base + st.pos, Append(text, "NUL"))]
    ELSE [ret |-> 0, pos |-> st.pos + Len(text),
          buf |-> Write(st.buf, base + st.pos, Append(text, "NUL"))]


\* snprintf(buffer + pos, size, ...): at most size - 1 bytes of text and a NUL
\* are stored; the call's value is the full length of the text
Snprintf(st, base, buffer_size, text) ==
    LET size == buffer_size - st.pos
        kept == Min(Len(text), size - 1)
        stored == IF size <= 0 THEN st.buf
                  ELSE Write(st.buf, base + st.pos, Append(SubSeq(text, 1, kept), "NUL"))
    IN  IF st.pos + Len(text) >= buffer_size
        THEN [ret |-> 0 - EOVERFLOW, pos |-> st.pos, buf |-> stored]
        ELSE [ret |-> 0, pos |-> st.pos + Len(text), buf |-> stored]

EscapeByte(c) ==
    CASE c = "\"" -> <<"\\", "\"">>
      [] c = "\\" -> <<"\\", "\\">>
      [] c = "BS" -> <<"\\", "b">>
      [] c = "FF" -> <<"\\", "f">>
      [] c = "LF" -> <<"\\", "n">>
      [] c = "CR" -> <<"\\", "r">>
      [] c = "TAB" -> <<"\\", "t">>
      [] OTHER -> <<c>>

\* "Copy string with escaping", from index i
RECURSIVE EmitString(_, _, _, _, _)
EmitString(data, i, st, base, buffer_size) ==
    IF st.ret < 0 \/ i > Len(data) THEN st
    ELSE EmitString(data, i + 1, Emit(st, base, buffer_size, EscapeByte(data[i])),
                    base, buffer_size)

RECURSIVE jsonk_serialize(_, _, _, _)
RECURSIVE SerializeMembers(_, _, _, _, _)
RECURSIVE SerializeElements(_, _, _, _, _)

\* list_for_each_entry over the members, from the i-th
SerializeMembers(members, i, st, base, buffer_size) ==
    IF st.ret < 0 \/ i > Len(members) THEN st
    ELSE
      LET member == members[i]
          s1 == IF i > 1 THEN Emit(st, base, buffer_size, <<",">>) ELSE st
          s2 == Emit(s1, base, buffer_size,
                     <<"\"">> \o member.key \o <<"\"", ":">>)
          sub == jsonk_serialize(member.value, s2.buf, base + s2.pos,
                                 buffer_size - s2.pos)
          s3 == IF sub.ret < 0
                THEN [ret |-> sub.ret, pos |-> s2.pos, buf |-> sub.buf]
                ELSE [ret |-> 0, pos |-> s2.pos + sub.written, buf |-> sub.buf]
      IN  IF s2.ret < 0 THEN s2
          ELSE SerializeMembers(members, i + 1, s3, base, buffer_size)

\* list_for_each_entry over the elements, from the i-th
SerializeElements(elements, i, st, base, buffer_size) ==
    IF st.ret < 0 \/ i > Len(elements) THEN st
    ELSE
      LET s1 == IF i > 1 THEN Emit(st, base, buffer_size, <<",">>) ELSE st
          sub == jsonk_serialize(elements[i], s1.buf, base + s1.pos,
                                 buffer_size - s1.pos)
          s2 == IF sub.ret < 0
                THEN [ret |-> sub.ret, pos |-> s1.pos, buf |-> sub.buf]
                ELSE [ret |-> 0, pos |-> s1.pos + sub.written, buf |-> sub.buf]
      IN  IF s1.ret < 0 THEN s1
          ELSE SerializeElements(elements, i + 1, s2, base, buffer_size)

jsonk_serialize(v, buf, base, buffer_size) ==
    IF v = NULL THEN [ret |-> 0 - EINVAL, written |-> 0, buf |-> buf]
    ELSE
      LET st0 == [ret |-> 0, pos |-> 0, buf |-> buf]
          E(st, bytes) == Emit(st, base, buffer_size, bytes)
          st ==
            CASE v.type = JSONK_VALUE_NULL -> E(st0, <<"n", "u", "l", "l">>)
              [] v.type = JSONK_VALUE_BOOLEAN ->
                    IF v.boolean THEN E(st0, <<"t", "r", "u", "e">>)
                    ELSE E(st0, <<"f", "a", "l", "s", "e">>)
              [] v.type = JSONK_VALUE_NUMBER ->
                    Snprintf(st0, base, buffer_size, NumberText(v))
              [] v.type = JSONK_VALUE_STRING ->
                    E(EmitString(v.data, 1, E(st0, <<"\"">>), base, buffer_size),
                      <<"\"">>)
              [] v.type = JSONK_VALUE_OBJECT ->
                    E(SerializeMembers(v.members, 1, E(st0, <<"{">>), base, buffer_size),
                      <<"}">>)
              [] v.type = JSONK_VALUE_ARRAY ->
                    E(SerializeElements(v.elements, 1, E(st0, <<"[">>), base, buffer_size),
                      <<"]">>)
      IN  \* *written = 0 at entry; *written = pos only on success
          [ret |-> st.ret, written |-> IF st.ret < 0 THEN 0 ELSE st.pos, buf |-> st.buf]

(***************************************************************************)
(* Deep copy.  jsonk_value_deep_copy returns [value, mem].                 *)
(***************************************************************************)
RECURSIVE jsonk_value_deep_copy(_, _, _)
RECURSIVE CopyMembers(_, _, _, _, _)
RECURSIVE CopyElements(_, _, _, _, _)

\* the return of the add is not looked at: the copy is the object as the add
\* left it, and a value_copy that was not added stays allocated
CopyMemberAdded(members, i, current_depth, added) ==
    CopyMembers(added.mem, members, i + 1, added.obj, current_depth)


\* "if (value_copy) jsonk_object_add_member_tracked(...)"
CopyMemberCopied(members, i, copy, current_depth, value_copy) ==
    IF value_copy.value = NULL
    THEN CopyMembers(value_copy.mem, members, i + 1, copy, current_depth)
    ELSE CopyMemberAdded(members, i, current_depth,
                         jsonk_object_add_member_tracked(value_copy.mem, copy,
                                                         members[i].key,
                                                         members[i].key_len,
                                                         value_copy.value))

\* list_for_each_entry over the source's members, from the i-th
CopyMembers(mem, members, i, copy, current_depth) ==
    IF i > Len(members) THEN Created(copy, mem)
    ELSE CopyMemberCopied(members, i, copy, current_depth,
                          jsonk_value_deep_copy(mem, members[i].value, current_depth + 1))

CopyElementAdded(elements, i, current_depth, added) ==
    CopyElements(added.mem, elements, i + 1, added.obj, current_depth)

\* "if (value_copy) jsonk_array_add_element_tracked(...)"
CopyElementCopied(elements, i, copy, current_depth, value_copy) ==
    IF value_copy.value = NULL
    THEN CopyElements(value_copy.mem, elements, i + 1, copy, current_depth)
    ELSE CopyElementAdded(elements, i, current_depth,
                          jsonk_array_add_element_tracked(value_copy.mem, copy,
                                                          value_copy.value))

\* list_for_each_entry over the source's elements, from the i-th
CopyElements(mem, elements, i, copy, current_depth) ==
    IF i > Len(elements) THEN Created(copy, mem)
    ELSE CopyElementCopied(elements, i, copy, current_depth,
                           jsonk_value_deep_copy(mem, elements[i], current_depth + 1))

\* "if (copy) copy->u.number = source->u.number;"
NumberCopied(created, source) ==
    IF created.value = NULL THEN created
    ELSE [created EXCEPT !.value = [@ EXCEPT !.integer = source.integer,
                                             !.fraction = source.fraction,
                                             !.is_negative = source.is_negative,
                                             !.is_integer = source.is_integer]]

\* "if (copy) list_for_each_entry(member, ...)"
ObjectCopied(created, source, current_depth) ==
    IF created.value = NULL THEN created
    ELSE CopyMembers(created.mem, source.members, 1, created.value, current_depth)

\* "if (copy) list_for_each_entry(element, ...)"
ArrayCopied(created, source, current_depth) ==
    IF created.value = NULL THEN created
    ELSE CopyElements(created.mem, source.elements, 1, created.value, current_depth)

jsonk_value_deep_copy(mem, source, current_depth) ==
    IF source = NULL \/ current_depth > JSONK_MAX_DEPTH THEN Created(NULL, mem)
    ELSE
      CASE source.type = JSONK_VALUE_NULL -> jsonk_value_create_null(mem)
        [] source.type = JSONK_VALUE_BOOLEAN ->
              jsonk_value_create_boolean(mem, source.boolean)
        [] source.type = JSONK_VALUE_NUMBER ->
              NumberCopied(jsonk_value_create(mem, JSONK_VALUE_NUMBER), source)
        [] source.type = JSONK_VALUE_STRING ->
              jsonk_value_create_string_tracked(mem, source.data, source.len, 0)
        [] source.type = JSONK_VALUE_OBJECT ->
              ObjectCopied(jsonk_value_create(mem, JSONK_VALUE_OBJECT), source,
                           current_depth)
        [] source.type = JSONK_VALUE_ARRAY ->
              ArrayCopied(jsonk_value_create(mem, JSONK_VALUE_ARRAY), source,
                          current_depth)

(***************************************************************************)
(* Merge-patch engine.  jsonk_merge_objects returns [ret, target, changed, *)
(* ops, mem]: the code, the target object after the call, *changed, (for   *)
(* the properties only) the number of inserts, deletes and replaces that   *)
(* were performed, at every depth, and the allocator after the call.       *)
(***************************************************************************)
is_empty(v) ==
    \/ v.type = JSONK_VALUE_NULL
    \/ (v.type = JSONK_VALUE_STRING /\ v.len = 0)
    \/ (v.type = JSONK_VALUE_OBJECT /\ v.size = 0)
    \/ (v.type = JSONK_VALUE_ARRAY /\ v.size = 0)

Merged(r, t, c, n, mem) == [ret |-> r, target |-> t, changed |-> c, ops |-> n, mem |-> mem]

\* "target_member->value = new_value": the store into the found member
SetMemberValue(obj, m, v) == [obj EXCEPT !.members[m].value = v]

\* a replace that leaves *changed as it was
MergeReplaceSilent(tgt, target_member, changed, ops, new_value) ==
    IF new_value.value = NULL THEN Merged(0 - ENOMEM, tgt, changed, ops, new_value.mem)
    ELSE Merged(0, SetMemberValue(tgt, target_member, new_value.value), changed, ops + 1,
                jsonk_value_put(new_value.mem, tgt.members[target_member].value))

\* "Replace value for non-objects", new_value the deep copy of the patch value
MergeReplace(tgt, target_member, changed, ops, new_value) ==
    IF new_value.value = NULL THEN Merged(0 - ENOMEM, tgt, changed, ops, new_value.mem)
    ELSE Merged(0, SetMemberValue(tgt, target_member, new_value.value), TRUE, ops + 1,
                jsonk_value_put(new_value.mem, tgt.members[target_member].value))

RECURSIVE jsonk_merge_objects(_, _, _)
RECURSIVE MergeLoop(_, _, _, _, _, _)

\* after jsonk_object_remove_member returned removed
MergeRemoved(tgt, patch_obj, i, changed, ops, removed) ==
    IF removed.ret < 0 THEN Merged(removed.ret, tgt, changed, ops, removed.mem)
    ELSE MergeLoop(removed.mem, removed.obj, patch_obj, i + 1, TRUE, ops + 1)

\* after jsonk_object_add_member returned added: on failure value_copy is released
MergeAdded(tgt, patch_obj, i, changed, ops, value_copy, added) ==
    IF added.ret < 0
    THEN Merged(added.ret, tgt, changed, ops, jsonk_value_put(added.mem, value_copy))
    ELSE MergeLoop(added.mem, added.obj, patch_obj, i + 1, TRUE, ops + 1)

\* "Key doesn't exist in target, add it", value_copy the deep copy
MergeInsert(tgt, patch_obj, i, changed, ops, value_copy) ==
    IF value_copy.value = NULL THEN Merged(0 - ENOMEM, tgt, changed, ops, value_copy.mem)
    ELSE MergeAdded(tgt, patch_obj, i, changed, ops, value_copy.value,
                    jsonk_object_add_member(value_copy.mem, tgt, patch_obj.members[i].key,
                                            patch_obj.members[i].key_len,
                                            value_copy.value))

\* "Recursive merge for objects", sub the return of the inner call
MergeNested(tgt, patch_obj, i, target_member, changed, ops, sub) ==
    IF sub.ret < 0
    THEN Merged(sub.ret, SetMemberValue(tgt, target_member, sub.target), changed,
                ops + sub.ops, sub.mem)
    ELSE MergeLoop(sub.mem, SetMemberValue(tgt, target_member, sub.target), patch_obj,
                   i + 1, changed \/ sub.changed, ops + sub.ops)

\* after the replace returned r
MergeReplaced(patch_obj, i, r) ==
    IF r.ret < 0 THEN r
    ELSE MergeLoop(r.mem, r.target, patch_obj, i + 1, r.changed, r.ops)

\* the body of the loop for the patch member member, target_member the index
\* jsonk_object_find_member found in the target (0: none)
MergeMember(mem, tgt, patch_obj, i, changed, ops, member, target_member) ==
    IF is_empty(member.value)
    THEN IF target_member # 0
         THEN MergeRemoved(tgt, patch_obj, i, changed, ops,
                           jsonk_object_remove_member(mem, tgt, member.key,
                                                      member.key_len))
         ELSE MergeLoop(mem, tgt, patch_obj, i + 1, changed, ops)
    ELSE IF target_member = 0
    THEN MergeInsert(tgt, patch_obj, i, changed, ops,
                     jsonk_value_deep_copy(mem, member.value, 1))
    ELSE IF /\ member.value.type = JSONK_VALUE_OBJECT
            /\ tgt.members[target_member].value.type = JSONK_VALUE_OBJECT
    THEN MergeNested(tgt, patch_obj, i, target_member, changed, ops,
                     jsonk_merge_objects(mem, tgt.members[target_member].value,
                                         member.value))
    ELSE MergeReplaced(patch_obj, i,
                       MergeReplace(tgt, target_member, changed, ops,
                                    jsonk_value_deep_copy(mem, member.value, 1)))

\* list_for_each_entry over the patch's members, from the i-th
MergeLoop(mem, tgt, patch_obj, i, changed, ops) ==
    IF i > Len(patch_obj.members) THEN Merged(0, tgt, changed, ops, mem)
    ELSE MergeMember(mem, tgt, patch_obj, i, changed, ops, patch_obj.members[i],
                     jsonk_object_find_member(tgt, patch_obj.members[i].key,
                                              patch_obj.members[i].key_len))

jsonk_merge_objects(mem, tgt, patch_obj) == MergeLoop(mem, tgt, patch_obj, 1, FALSE, 0)

(***************************************************************************)
(* Path access.  A path is the caller's buffer of path_len bytes; a        *)
(* position in it is an offset from its start.  jsonk_set_value_by_path    *)
(* returns [ret, obj, mem]: the code, the root after the call and the      *)
(* allocator after the call.                                               *)
(***************************************************************************)
\* the bytes of the buffer from the offset on
From(path, current_path) == SubSeq(path, current_path + 1, Len(path))

\* memchr(path, '.', path_len): the offset of the first dot in the
\* remaining_len bytes at current_path, -1 if there is none
DotAt(path, current_path, remaining_len) ==
    IF \E i \in current_path..(current_path + remaining_len - 1) : path[i + 1] = "."
    THEN CHOOSE i \in current_path..(current_path + remaining_len - 1) :
            /\ path[i + 1] = "."
            /\ \A j \in current_path..(i - 1) : path[j + 1] # "."
    ELSE 0 - 1

\* *component_len and the return: the offset after the dot, or is_last
Component(current_path, remaining_len, dot) ==
    IF dot < 0 THEN [component_len |-> remaining_len, is_last |-> TRUE, next_path |-> 0]
    ELSE [component_len |-> dot - current_path, is_last |-> FALSE, next_path |-> dot + 1]

jsonk_parse_path_component(path, current_path, remaining_len) ==
    Component(current_path, remaining_len, DotAt(path, current_path, remaining_len))

RECURSIVE GetLoop(_, _, _, _, _)

\* "curr = member->value;" and the move to the next component
GetMember(curr, path, path_len, c, member) ==
    IF member = 0 THEN NULL
    ELSE IF c.is_last THEN curr.members[member].value
    ELSE GetLoop(curr.members[member].value, path, path_len, c.next_path,
                 path_len - c.next_path)

\* the body of the while loop of jsonk_get_value_by_path, c the component
GetComponent(curr, path, path_len, current_path, c) ==
    IF curr.type # JSONK_VALUE_OBJECT THEN NULL
    ELSE GetMember(curr, path, path_len, c,
                   jsonk_object_find_member(curr, From(path, current_path), c.component_len))

\* "while (remaining_len > 0)"
GetLoop(curr, path, path_len, current_path, remaining_len) ==
    IF remaining_len = 0 THEN curr
    ELSE GetComponent(curr, path, path_len, current_path,
                      jsonk_parse_path_component(path, current_path, remaining_len))

jsonk_get_value_by_path(root, path, path_len) ==
    IF root = NULL \/ path_len = 0 THEN NULL
    ELSE IF root.type # JSONK_VALUE_OBJECT THEN NULL
    ELSE GetLoop(root, path, path_len, 0, path_len)

RECURSIVE SetLoop(_, _, _, _, _, _, _)

\* the inner iterations ran on the value of the member-th member and
\* returned sub: the member holds what they left
SetBelow(curr, member, sub) ==
    Changed(sub.ret, SetMemberValue(curr, member, sub.obj), sub.mem)

\* "curr = intermediate;" after the add returned added, or its failure
SetIntermediateAdded(path, path_len, c, val, intermediate, added) ==
    IF added.ret < 0
    THEN Changed(added.ret, added.obj, jsonk_value_put(added.mem, intermediate))
    ELSE SetBelow(added.obj, Len(added.obj.members),
                  SetLoop(added.mem, intermediate, path, path_len, c.next_path,
                          path_len - c.next_path, val))

\* "Create intermediate object", intermediate the return of the create
SetIntermediate(curr, path, path_len, current_path, c, val, intermediate) ==
    IF intermediate.value = NULL THEN Changed(0 - ENOMEM, curr, intermediate.mem)
    ELSE SetIntermediateAdded(path, path_len, c, val, intermediate.value,
                              jsonk_object_add_member_tracked(intermediate.mem, curr,
                                                              From(path, current_path),
                                                              c.component_len,
                                                              intermediate.value))

\* "Replace with empty object", new_object the return of the create
SetReplaced(curr, path, path_len, c, val, member, new_object) ==
    IF new_object.value = NULL THEN Changed(0 - ENOMEM, curr, new_object.mem)
    ELSE SetBelow(curr, member,
                  SetLoop(jsonk_value_put(new_object.mem, curr.members[member].value),
                          new_object.value, path, path_len, c.next_path,
                          path_len - c.next_path, val))

\* "Not the last component - ensure intermediate object exists"
SetInner(mem, curr, path, path_len, current_path, c, val, member) ==
    IF member = 0
    THEN SetIntermediate(curr, path, path_len, current_path, c, val,
                         jsonk_value_create(mem, JSONK_VALUE_OBJECT))
    ELSE IF curr.members[member].value.type # JSONK_VALUE_OBJECT
    THEN SetReplaced(curr, path, path_len, c, val, member,
                     jsonk_value_create(mem, JSONK_VALUE_OBJECT))
    ELSE SetBelow(curr, member,
                  SetLoop(mem, curr.members[member].value, path, path_len, c.next_path,
                          path_len - c.next_path, val))

\* "Add new member", added the return of jsonk_object_add_member
SetAdded(value_copy, added) ==
    IF added.ret < 0
    THEN Changed(added.ret, added.obj, jsonk_value_put(added.mem, value_copy))
    ELSE added

\* "Last component - set the value", value_copy the return of the deep copy
SetLast(curr, path, current_path, c, member, value_copy) ==
    IF value_copy.value = NULL THEN Changed(0 - ENOMEM, curr, value_copy.mem)
    ELSE IF member # 0
    THEN Changed(0, SetMemberValue(curr, member, value_copy.value),
                 jsonk_value_put(value_copy.mem, curr.members[member].value))
    ELSE SetAdded(value_copy.value,
                  jsonk_object_add_member(value_copy.mem, curr, From(path, current_path),
                                          c.component_len, value_copy.value))

\* the body of the while loop of jsonk_set_value_by_path, c the component
SetComponent(mem, curr, path, path_len, current_path, c, val) ==
    IF curr.type # JSONK_VALUE_OBJECT THEN Changed(0 - EINVAL, curr, mem)
    ELSE IF ~c.is_last
    THEN SetInner(mem, curr, path, path_len, current_path, c, val,
                  jsonk_object_find_member(curr, From(path, current_path), c.component_len))
    ELSE SetLast(curr, path, current_path, c,
                 jsonk_object_find_member(curr, From(path, current_path), c.component_len),
                 jsonk_value_deep_copy(mem, val, 1))

\* "while (remaining_len > 0)"
SetLoop(mem, curr, path, path_len, current_path, remaining_len, val) ==
    IF remaining_len = 0 THEN Changed(0, curr, mem)
    ELSE SetComponent(mem, curr, path, path_len, current_path,
                      jsonk_parse_path_component(path, current_path, remaining_len), val)

jsonk_set_value_by_path(mem, root, path, path_len, val) ==
    IF root = NULL \/ path_len = 0 \/ val = NULL THEN Changed(0 - EINVAL, root, mem)
    ELSE IF root.type # JSONK_VALUE_OBJECT THEN Changed(0 - EINVAL, root, mem)
    ELSE SetLoop(mem, root, path, path_len, 0, path_len, val)

(***************************************************************************)
(* jsonk_apply_patch.  The call returns [ret, result, result_len, mem]     *)
(* and, for the properties, its locals as they are at the error label:     *)
(* target_json, patch_json, target_copy and the number of merge operations *)
(* performed.  mem is the allocator after the puts of the error label.     *)
(***************************************************************************)
Applied(r, res, len, tj, pj, tc, n, mem) ==
    [ret |-> r, result |-> res, result_len |-> len,
     target_json |-> tj, patch_json |-> pj, target_copy |-> tc, ops |-> n,
     mem |-> jsonk_value_put(jsonk_value_put(jsonk_value_put(mem, tj), pj), tc)]

\* a fallback that wants one spare byte in the result buffer
PatchParseFallbackStrict(tgt, target_len, res, result_max_len, len) ==
    IF target_len < result_max_len
    THEN [ret |-> JSONK_PATCH_NO_CHANGE,
          result |-> Write(res, 0, SubSeq(tgt, 1, target_len)),
          result_len |-> target_len]
    ELSE [ret |-> JSONK_PATCH_ERROR_OVERFLOW, result |-> res, result_len |-> len]

\* "If patch is invalid, return original JSON unchanged"
PatchParseFallback(tgt, target_len, res, result_max_len, len) ==
    IF target_len <= result_max_len
    THEN [ret |-> JSONK_PATCH_NO_CHANGE,
          result |-> Write(res, 0, SubSeq(tgt, 1, target_len)),
          result_len |-> target_len]
    ELSE [ret |-> JSONK_PATCH_ERROR_OVERFLOW, result |-> res, result_len |-> len]

\* "*result_len = written; ret = changed ? ... " or the overflow mapping
SerializeOutcome(s, changed, len) ==
    IF s.ret < 0
    THEN [ret |-> IF s.ret = 0 - EOVERFLOW THEN JSONK_PATCH_ERROR_OVERFLOW
                  ELSE JSONK_PATCH_ERROR_PARSE,
          result |-> s.buf, result_len |-> len]
    ELSE [ret |-> IF changed THEN JSONK_PATCH_SUCCESS ELSE JSONK_PATCH_NO_CHANGE,
          result |-> s.buf, result_len |-> s.written]

\* "Serialize result from the successfully patched copy"
SerializeResult(target_copy, changed, res, result_max_len, len) ==
    SerializeOutcome(jsonk_serialize(target_copy, res, 0, result_max_len), changed, len)

\* the return of a call that got as far as its fallback or its serialization
AppliedWith(out, tj, pj, tc, n, mem) ==
    Applied(out.ret, out.result, out.result_len, tj, pj, tc, n, mem)

\* jsonk_apply_patch after the merge m of the copy with the patch
ApplyMerged(res, result_max_len, len, target_json, patch_json, m) ==
    IF m.ret < 0
    THEN Applied(JSONK_PATCH_ERROR_MEMORY, res, len, target_json, patch_json,
                 m.target, m.ops, m.mem)
    ELSE AppliedWith(SerializeResult(m.target, m.changed, res, result_max_len, len),
                     target_json, patch_json, m.target, m.ops, m.mem)

\* jsonk_apply_patch after the deep copy of the target
ApplyToCopy(res, result_max_len, len, target_json, patch_json, target_copy) ==
    IF target_copy.value = NULL
    THEN Applied(JSONK_PATCH_ERROR_MEMORY, res, len, target_json, patch_json, NULL, 0,
                 target_copy.mem)
    ELSE ApplyMerged(res, result_max_len, len, target_json, patch_json,
                     jsonk_merge_objects(target_copy.mem, target_copy.value, patch_json))

\* jsonk_apply_patch after the parse of the patch
ApplyParsedPatch(tgt, target_len, res, result_max_len, len, target_json, patch_json, mem) ==
    IF patch_json = NULL
    THEN AppliedWith(PatchParseFallback(tgt, target_len, res, result_max_len, len),
                     target_json, NULL, NULL, 0, mem)
    ELSE IF patch_json.type # JSONK_VALUE_OBJECT
    THEN Applied(JSONK_PATCH_ERROR_TYPE, res, len, target_json, patch_json, NULL, 0, mem)
    ELSE ApplyToCopy(res, result_max_len, len, target_json, patch_json,
                     jsonk_value_deep_copy(mem, target_json, 0))

\* "Parse patch JSON", parsed the return of jsonk_parse
ApplyPatchParsed(tgt, target_len, res, result_max_len, len, target_json, parsed) ==
    ApplyParsedPatch(tgt, target_len, res, result_max_len, len, target_json,
                     parsed.value, parsed.parser.mem)

\* the patch examined before the target
ApplyPatchFirst(tgt, target_len, pat, patch_len, res, result_max_len, len, target_json, mem) ==
    IF /\ jsonk_parse(pat, patch_len, mem).value # NULL
       /\ jsonk_parse(pat, patch_len, mem).value.type # JSONK_VALUE_OBJECT
    THEN Applied(JSONK_PATCH_ERROR_TYPE, res, len, target_json, NULL, NULL, 0, mem)
    ELSE IF target_json = NULL
    THEN Applied(JSONK_PATCH_ERROR_PARSE, res, len, NULL, NULL, NULL, 0, mem)
    ELSE IF target_json.type # JSONK_VALUE_OBJECT
    THEN Applied(JSONK_PATCH_ERROR_TYPE, res, len, target_json, NULL, NULL, 0, mem)
    ELSE ApplyPatchParsed(tgt, target_len, res, result_max_len, len, target_json,
                          jsonk_parse(pat, patch_len, mem))

\* jsonk_apply_patch after the parse of the target
ApplyToParsedTarget(tgt, target_len, pat, patch_len, res, result_max_len, len, target_json, mem) ==
    IF target_json = NULL
    THEN Applied(JSONK_PATCH_ERROR_PARSE, res, len, NULL, NULL, NULL, 0, mem)
    ELSE IF target_json.type # JSONK_VALUE_OBJECT
    THEN Applied(JSONK_PATCH_ERROR_TYPE, res, len, target_json, NULL, NULL, 0, mem)
    ELSE ApplyPatchParsed(tgt, target_len, res, result_max_len, len, target_json,
                          jsonk_parse(pat, patch_len, mem))

\* "Parse target JSON", parsed the return of jsonk_parse
ApplyTargetParsed(tgt, target_len, pat, patch_len, res, result_max_len, len, parsed) ==
    ApplyToParsedTarget(tgt, target_len, pat, patch_len, res, result_max_len, len,
                        parsed.value, parsed.parser.mem)

jsonk_apply_patch(mem, tgt, target_len, pat, patch_len, res, result_max_len, len) ==
    ApplyTargetParsed(tgt, target_len, pat, patch_len, res, result_max_len, len,
                      jsonk_parse(tgt, target_len, mem))

(***************************************************************************)
(* The documents the calls are made with.                                  *)
(***************************************************************************)
BigBuf == 64           \* a result buffer that holds every result of the model
TightBuf == 8          \* a result buffer that holds only the shortest documents
StaleLen == 7          \* what an uninitialised result_len may hold
MaxApplications == 2   \* how many times the patch is applied in a row
DepthMargin == 1       \* how far from the depth limit the nested documents go
MaxAllocations == 24   \* the latest allocation of a run that may fail

Quoted(bytes) == <<"\"">> \o bytes \o <<"\"">>
MemberText(key, text) == Quoted(key) \o <<":">> \o text

RECURSIVE JoinMembers(_, _)
JoinMembers(keys, texts) ==
    IF Len(keys) = 0 THEN <<>>
    ELSE IF Len(keys) = 1 THEN MemberText(keys[1], texts[1])
    ELSE MemberText(keys[1], texts[1]) \o <<",">> \o JoinMembers(Tail(keys), Tail(texts))

ObjectText(keys, texts) == <<"{">> \o JoinMembers(keys, texts) \o <<"}">>

kA == <<"a">>
kB == <<"b">>
kC == <<"c">>

tOne == <<"1">>
tTwo == <<"2">>
tMinusFive == <<"-", "5">>
tNull == <<"n", "u", "l", "l">>
tS == Quoted(<<"s">>)
tEmptyString == Quoted(<<>>)
\* a string whose rendering fills TightBuf exactly
tSixBytes == Quoted([i \in 1..(TightBuf - 2) |-> "x"])
\* the JSON texts "\\x" and "\\\\x": the strings \x and \\x
tBackslashX == Quoted(<<"\\", "\\", "x">>)
tBackslash2X == Quoted(<<"\\", "\\", "\\", "\\", "x">>)
tEmptyObject == <<"{", "}">>
tEmptyArray == <<"[", "]">>

TargetValueTexts ==
    {tOne, tS, tBackslashX, tBackslash2X, ObjectText(<<kB>>, <<tOne>>)}

PatchValueTexts ==
    {tTwo, tOne, tS, tNull, tEmptyString, tEmptyObject, tEmptyArray, tBackslashX,
     ObjectText(<<kB>>, <<tNull>>), ObjectText(<<kB>>, <<tTwo>>)}

PairedPatchValueTexts ==
    {tTwo, tNull, tBackslashX, ObjectText(<<kB>>, <<tNull>>), ObjectText(<<kB>>, <<tTwo>>)}

ObjectTargets ==
    {tEmptyObject}
      \cup {ObjectText(<<kB>>, <<v>>) : v \in TargetValueTexts}
      \cup {ObjectText(<<kA, kB>>, <<v, tOne>>) : v \in TargetValueTexts}
      \cup {ObjectText(<<kA>>, <<tMinusFive>>)}

ObjectPatches ==
    {tEmptyObject}
      \cup {ObjectText(<<kA>>, <<v>>) : v \in PatchValueTexts}
      \cup {ObjectText(<<kA, kC>>, <<v, w>>) : v \in PairedPatchValueTexts, w \in {tTwo, tNull}}
      \cup {ObjectText(<<kC, kA>>, <<w, v>>) : v \in PairedPatchValueTexts, w \in {tTwo, tNull}}

\* valid JSON texts whose value is no Object, or whose keys are not one byte
OtherValidDocs ==
    { tMinusFive, tS, tSixBytes,
      <<"[", "1", ",", "-", "2", "]">>,
      <<"-", "0", ".", "5">>,
      <<"1", ".", "0", "5">>,
      Quoted(<<"\\", "u", "0", "0", "4", "1", "\\", "n">>),
      ObjectText(<<<<"a", "b">>>>, <<tOne>>),
      ObjectText(<<<<>>>>, <<tOne>>),
      <<" ", "{", " ", "}">> }

\* texts that are not JSON
InvalidDocs ==
    { <<>>,
      <<"{", "\"", "a", "\"", ":", "}">>,
      <<"{", "\"", "a", "\"", ":", "2", ",", "\"", "c", "\"", ":", "}">> }

\* n copies of a text, one after the other
RECURSIVE Repeated(_, _)
Repeated(text, n) == IF n = 0 THEN <<>> ELSE text \o Repeated(text, n - 1)

\* n arrays, or n one-member objects, around an innermost text
NestedArrays(n, inner) == Repeated(<<"[">>, n) \o inner \o Repeated(<<"]">>, n)
NestedObjects(n, inner) ==
    Repeated(<<"{", "\"", "a", "\"", ":">>, n - 1) \o <<"{">> \o inner
      \o Repeated(<<"}">>, n)

\* documents nested to the depth limit, DepthMargin levels less and more; the
\* innermost container is empty or holds a number
DeepDocs ==
    UNION { { NestedArrays(n, <<>>), NestedArrays(n, tOne),
              NestedObjects(n, <<>>), NestedObjects(n, MemberText(kA, tOne)) } :
            n \in (JSONK_MAX_DEPTH - DepthMargin - 1)..(JSONK_MAX_DEPTH + DepthMargin) }

ValidDocs == ObjectTargets \cup ObjectPatches \cup OtherValidDocs

Targets == ObjectTargets \cup OtherValidDocs \cup InvalidDocs
Patches == ObjectPatches
             \cup {<<"[", "1", "]">>, tTwo, ObjectText(<<<<"a", "c">>>>, <<tTwo>>)}
             \cup InvalidDocs

\* the documents of the runs in which an allocation fails
MemTargets ==
    { tEmptyObject, ObjectText(<<kB>>, <<tS>>), ObjectText(<<kA, kB>>, <<tS, tOne>>),
      ObjectText(<<kB>>, <<ObjectText(<<kB>>, <<tOne>>)>>),
      <<"[", "1", ",", "-", "2", "]">>, <<"{", "\"", "a", "\"", ":", "}">> }

MemPatches ==
    { tEmptyObject, ObjectText(<<kA>>, <<tTwo>>), ObjectText(<<kA>>, <<tS>>),
      ObjectText(<<kB>>, <<ObjectText(<<kB>>, <<tTwo>>)>>),
      ObjectText(<<kA, kC>>, <<tNull, tTwo>>), <<"{", "\"", "a", "\"", ":", "}">> }

\* documents with one member whose key is about JSONK_MAX_KEY_LENGTH bytes long
KeyMargin == 2

LongKey(n) == [i \in 1..n |-> "k"]

LongKeyDocs ==
    { ObjectText(<<LongKey(n)>>, <<v>>) :
        n \in (JSONK_MAX_KEY_LENGTH - KeyMargin)..(JSONK_MAX_KEY_LENGTH + KeyMargin),
        v \in {tOne, tS, tNull} }

\* array and object texts with a comma that no element or member follows
TrailingCommaArrays ==
    { <<"[", "1", ",", "]">>, <<"[", "1", ",", " ", "]">>,
      <<"[", "1", ",", "2", ",", "]">>, <<"[", "[", "1", ",", "]", "]">> }

TrailingCommaObjects ==
    { <<"{", "\"", "a", "\"", ":", "1", ",", "}">>,
      <<"{", "\"", "a", "\"", ":", "1", ",", " ", "}">> }

\* array texts around them: well formed, or with a comma in another wrong place
OtherArrays ==
    { tEmptyArray, <<"[", "1", "]">>, <<"[", "1", ",", "2", "]">>, <<"[", ",", "]">>,
      <<"[", ",", "1", "]">>, <<"[", "1", ",", ",", "2", "]">>, <<"[", "1", " ", "2", "]">> }

\* the contents of string texts: up to MaxPieces pieces, each an escape, a
\* broken escape, a raw control byte or a plain byte
MaxPieces == 2

SimpleEscapes == {"\"", "\\", "/", "b", "f", "n", "r", "t"}

Pieces ==
    {<<"\\", e>> : e \in SimpleEscapes}
      \cup { <<"\\", "u", "0", "0", "4", "1">>, <<"\\", "u", "a", "F", "9", "c">>,
             <<"\\", "u", "0", "0", "4">>, <<"\\", "u", "0", "0", "g", "1">>, <<"\\", "u">>,
             <<"\\", "x">>, <<"\\", "0">>, <<"LF">>, <<"NUL">>, <<"a">>, <<"u">> }

RECURSIVE PieceStrings(_)
PieceStrings(n) ==
    IF n = 0 THEN {<<>>}
    ELSE PieceStrings(n - 1) \cup {c \o p : c \in PieceStrings(n - 1), p \in Pieces}

StringContents == PieceStrings(MaxPieces)

\* the text of a string without its closing quote
Unclosed(bytes) == <<"\"">> \o bytes

StringDocs == {Quoted(c) : c \in StringContents} \cup {Unclosed(c) : c \in StringContents}

\* the integer parts of the number texts: digit strings up to S64_MAX, just
\* above it and far above it
IntegerParts ==
    { <<"0">>,
      <<"7">>,
      <<"2", "1", "4", "7", "4", "8", "3", "6", "4">>,
      <<"2", "1", "4", "7", "4", "8", "3", "6", "3", "9">>,
      <<"2", "1", "4", "7", "4", "8", "3", "6", "4", "7">>,
      <<"2", "1", "4", "7", "4", "8", "3", "6", "4", "8">>,
      <<"2", "1", "4", "7", "4", "8", "3", "6", "4", "9">>,
      <<"2", "1", "4", "7", "4", "8", "3", "6", "5", "0">>,
      <<"2", "1", "4", "7", "4", "8", "3", "6", "4", "7", "0">>,
      <<"2", "1", "4", "7", "4", "8", "3", "6", "4", "8", "0">>,
      <<"9", "9", "9", "9", "9", "9", "9", "9", "9", "9">> }

\* what follows the integer part of a literal that is no integer
FractionsAndExponents ==
    { <<".", "0">>, <<".", "5">>, <<".", "0", "5">>, <<".", "1", "2", "3", "4", "5", "6", "7", "8", "9", "7">>,
      <<"e", "5">>, <<"E", "-", "2">>, <<".", "5", "e", "+", "1">> }

NumberDocs ==
    {sign \o digits \o rest :
        sign \in {<<>>, <<"-">>}, digits \in IntegerParts, rest \in FractionsAndExponents}

CommaDocs == TrailingCommaArrays \cup TrailingCommaObjects \cup OtherArrays

\* the texts of the runs that parse and serialize one text
SyntaxDocs == CommaDocs \cup StringDocs \cup NumberDocs

\* complete values, and the bytes that follow them in a text
tTrue == <<"t", "r", "u", "e">>
tFalse == <<"f", "a", "l", "s", "e">>
ObjectBases == {tEmptyObject, ObjectText(<<kA>>, <<tOne>>), ObjectText(<<kB>>, <<tS>>)}
TrailingBases == ObjectBases \cup {<<"[", "1", "]">>, tS, tNull, tTrue, tFalse}
TrailingBytes == {<<>>, <<"x", "y", "z">>, <<"}">>, <<",">>, <<"NUL">>, <<" ", "{">>, <<"\"">>, <<"1">>}
TrailingDocs == {b \o j : b \in TrailingBases, j \in TrailingBytes}
TrailingPatches == {b \o j : b \in ObjectBases, j \in TrailingBytes}


\* texts of every type of value, flat and nested
BufferDocs ==
    { tNull, tTrue, tFalse, tOne, tMinusFive, <<"1", ".", "0", "5">>,
      tS, tEmptyString, Quoted(<<"a", "\\", "n", "\\", "\"">>),
      tEmptyObject, tEmptyArray,
      <<"[", "1", ",", "-", "2", "]">>,
      <<"[", "[", "7", ".", "5", "]", ",", "\"", "s", "\"", "]">>,
      ObjectText(<<kA>>, <<tOne>>),
      ObjectText(<<kA, kB>>, <<<<"[", "t", "r", "u", "e", ",", "n", "u", "l", "l", "]">>, tS>>),
      ObjectText(<<kA>>, <<ObjectText(<<kB>>, <<tMinusFive>>)>>) }


\* patches whose member a is an Object or an Array with empty values inside,
\* and targets without a member a, with one that is no Object, with an Object
NestedEmpties ==
    { ObjectText(<<kB>>, <<tNull>>),
      ObjectText(<<kB, kC>>, <<tNull, tTwo>>),
      ObjectText(<<kB, kC>>, <<tNull, tBackslashX>>),
      ObjectText(<<kB>>, <<Quoted(<<"\\", "\\", "n">>)>>),
      ObjectText(<<kB>>, <<tEmptyString>>),
      ObjectText(<<kB>>, <<tEmptyObject>>),
      ObjectText(<<kB>>, <<ObjectText(<<kC>>, <<tNull>>)>>),
      <<"[", "n", "u", "l", "l", "]">>,
      <<"[", "1", ",", "n", "u", "l", "l", "]">>,
      <<"[", "[", "]", "]">>,
      <<"[", "{", "}", ",", "\"", "\"", "]">> }
VerbatimPatches ==
    {ObjectText(<<kA>>, <<v>>) : v \in NestedEmpties}
      \cup {ObjectText(<<kC, kA>>, <<tNull, v>>) : v \in NestedEmpties}
VerbatimTargets ==
    { tEmptyObject,
      ObjectText(<<kC>>, <<tOne>>),
      ObjectText(<<kA>>, <<tOne>>),
      ObjectText(<<kA>>, <<tS>>),
      ObjectText(<<kA>>, <<<<"[", "1", "]">>>>),
      ObjectText(<<kA>>, <<ObjectText(<<kB>>, <<tOne>>)>>),
      ObjectText(<<kA, kC>>, <<ObjectText(<<kB, kC>>, <<tOne, tOne>>), tOne>>) }


\* the trees a caller edits, the keys, paths and values of its calls
MaxCalls == 2
MaxTreeAllocations == 9
TreeDocs ==
    { tEmptyObject,
      ObjectText(<<kA>>, <<tOne>>),
      ObjectText(<<kA, kB>>, <<ObjectText(<<kB>>, <<tS>>), tOne>>),
      <<"[", "1", "]">> }
TreePatches == {ObjectText(<<kA>>, <<tNull>>), ObjectText(<<kA, kC>>, <<ObjectText(<<kB>>, <<tTwo>>), <<"[", "1", "]">>>>)}
TreePaths ==
    { <<"a">>, <<"a", ".", "b">>, <<"b", ".", "a", ".", "c">>, <<"a", "b", ".", "c">> }


BufferSizes == {TightBuf, BigBuf}

\* a buffer of n bytes the caller has not written
FreshBuffer(n) == [i \in 1..n |-> "?"]

NoLocals == [target_json |-> NULL, patch_json |-> NULL, target_copy |-> NULL, ops |-> 0]

\* no allocation fails and nothing is allocated
NoFailure == Mem(FALSE, 0, 0, 0)

(***************************************************************************)
(* Reference counts.  The heap maps an address to the struct jsonk_value   *)
(* stored there: its refcount and its fields v, in which the value of a    *)
(* member is the address of the child.  A free address holds NoValue.      *)
(* kmem_cache_alloc hands out the lowest free address, so that a freed     *)
(* address is used again.                                                  *)
(***************************************************************************)
MaxNodes == 4
MaxOps == 6
MaxRefs == 3
MaxMembers == 2
NumContexts == 3

Addresses == 1..MaxNodes
Contexts == 1..NumContexts

NoValue == [refcount |-> 0, v |-> NULL]
EmptyHeap == [n \in Addresses |-> NoValue]

Live(h, n) == h[n].v # NULL

FreeAddresses(h) == {n \in Addresses : ~Live(h, n)}

\* kmem_cache_alloc(jsonk_value_cache, GFP_KERNEL)
kmem_cache_alloc(h) == CHOOSE n \in FreeAddresses(h) : \A m \in FreeAddresses(h) : n <= m

\* jsonk_value_create_tracked: the new struct with "atomic_set(&value->refcount, 1)"
Stored(h, v) == [h EXCEPT ![kmem_cache_alloc(h)] = [refcount |-> 1, v |-> v]]

atomic_inc(h, n) == [h EXCEPT ![n].refcount = @ + 1]

\* atomic_dec_and_test: the decrement; the test is "the count is now 0"
atomic_dec(h, n) == [h EXCEPT ![n].refcount = @ - 1]

\* a get that does not count
GetUncounted(h, n) == h

jsonk_value_get(h, n) == atomic_inc(h, n)

\* the addresses a struct jsonk_value points to, in list order
Children(v) ==
    IF v.type = JSONK_VALUE_OBJECT THEN [i \in 1..Len(v.members) |-> v.members[i].value]
    ELSE <<>>

RECURSIVE ValuePut(_, _)

\* a release that forgets the children
ChildrenKept(h, children, i) == h

\* the member loop of jsonk_value_free_internal: jsonk_value_put(member->value)
RECURSIVE PutChildren(_, _, _)
PutChildren(h, children, i) ==
    IF i > Len(children) THEN h
    ELSE PutChildren(ValuePut(h, children[i]), children, i + 1)

\* jsonk_value_free_internal on the struct at address n
ValueFreeInternal(h, n) == [PutChildren(h, Children(h[n].v), 1) EXCEPT ![n] = NoValue]

\* jsonk_value_put on the struct at address n
ValuePut(h, n) ==
    IF h[n].refcount = 1 THEN ValueFreeInternal(atomic_dec(h, n), n)
    ELSE atomic_dec(h, n)

\* the addresses reachable from address n, n included
RECURSIVE ReachFrom(_, _)
ReachFrom(h, n) ==
    {n} \cup UNION {ReachFrom(h, Children(h[n].v)[i]) : i \in 1..Len(Children(h[n].v))}

\* jsonk_object_add_member(&object, key, key_len, child) on the struct at o:
\* the member holds the pointer it is given
MemberAdded(h, o, key, key_len, child) ==
    [h EXCEPT ![o].v = jsonk_object_add_member(NoFailure, @, key, key_len, child).obj]

\* jsonk_object_remove_member after jsonk_object_find_member found member m
MemberDropped(h, o, m) ==
    ValuePut([h EXCEPT ![o].v = [@ EXCEPT !.members = RemoveAt(@, m), !.size = @ - 1]],
             h[o].v.members[m].value)

\* a deep copy: the heap after it and the address of the copy (0: NULL)
Copied(h, root) == [heap |-> h, root |-> root]

RECURSIVE ValueDeepCopy(_, _, _)

\* a copy that shares the child instead of copying it
ChildShared(h, child, current_depth) == Copied(jsonk_value_get(h, child), child)

\* "value_copy = jsonk_value_deep_copy(member->value, current_depth + 1)"
ChildCopied(h, child, current_depth) == ValueDeepCopy(h, child, current_depth + 1)

\* "if (value_copy) jsonk_object_add_member_tracked(&copy->u.object, ...)"
CopyAdded(members, i, copy, c) ==
    IF c.root = 0 THEN c.heap
    ELSE MemberAdded(c.heap, copy, members[i].key, members[i].key_len, c.root)

\* the member loop of jsonk_value_deep_copy into the struct at copy
RECURSIVE CopyChildren(_, _, _, _, _)
CopyChildren(h, members, i, copy, current_depth) ==
    IF i > Len(members) THEN h
    ELSE CopyChildren(CopyAdded(members, i, copy,
                                ChildCopied(h, members[i].value, current_depth)),
                      members, i + 1, copy, current_depth)

\* the copy of a leaf is what jsonk_value_deep_copy makes of its fields
LeafCopied(h, c) == IF c = NULL THEN Copied(h, 0) ELSE Copied(Stored(h, c), kmem_cache_alloc(h))

\* jsonk_value_deep_copy of the struct at address n
ValueDeepCopy(h, n, current_depth) ==
    IF current_depth > JSONK_MAX_DEPTH THEN Copied(h, 0)
    ELSE IF h[n].v.type = JSONK_VALUE_OBJECT
    THEN Copied(CopyChildren(Stored(h, ValueOfType(JSONK_VALUE_OBJECT)), h[n].v.members, 1,
                             kmem_cache_alloc(h), current_depth),
                kmem_cache_alloc(h))
    ELSE LeafCopied(h, jsonk_value_deep_copy(NoFailure, h[n].v, current_depth).value)

NoReferences == [c \in Contexts |-> [n \in Addresses |-> 0]]

NoOperation == [op |-> "none", node |-> 0, other |-> 0, children |-> {}, count |-> 0]

\* the caller of the parse and patch interface holds no struct jsonk_value here
HeapUnused ==
    /\ heap = EmptyHeap
    /\ held = NoReferences
    /\ cpc = [c \in Contexts |-> "idle"]
    /\ frees = 0
    /\ last = NoOperation

(***************************************************************************)
(* The state machine: a caller parses, serializes and reparses the target  *)
(* text, or applies the patch to it and then to the result.                *)
(***************************************************************************)
\* a caller that holds one of the targets and one of the patches, with the
\* allocator in one of the states mems
Starting(targets, patches, mems) ==
    /\ kmem \in mems
    /\ last_parser = jsonk_parser_init(kmem)
    /\ pc = "start"
    /\ target \in targets
    /\ patch \in patches
    /\ \E n \in BufferSizes : result = FreshBuffer(n)
    /\ declared = Len(result)
    /\ result_len \in {0, StaleLen}
    /\ ret = "none"
    /\ locals = NoLocals
    /\ value = NULL
    /\ sret = 0
    /\ reparsed = NULL
    /\ hist = [result |-> result, result_len |-> result_len, round |-> 0,
               prev |-> <<>>, prev_ret |-> "none"]
    /\ HeapUnused

Init == Starting(Targets, Patches, {NoFailure})

\* what the caller holds after jsonk_parse returned parsed
ParseReturned(parsed) ==
    /\ value' = parsed.value
    /\ last_parser' = parsed.parser
    /\ kmem' = parsed.parser.mem

Parse ==
    /\ pc = "start"
    /\ ParseReturned(jsonk_parse(target, Len(target), kmem))
    /\ pc' = "parsed"
    /\ UNCHANGED <<target, patch, result, result_len, ret, locals, sret, reparsed, hist, declared, hvars>>

\* what the caller holds after jsonk_serialize returned s
Serialized(s) ==
    /\ result' = s.buf
    /\ result_len' = s.written
    /\ sret' = s.ret

Serialize ==
    /\ pc = "parsed"
    /\ value # NULL
    /\ Serialized(jsonk_serialize(value, result, 0, Len(result)))
    /\ pc' = "serialized"
    /\ UNCHANGED <<target, patch, ret, locals, value, reparsed, hist, kmem, last_parser, declared, hvars>>

\* what the caller holds after the second jsonk_parse returned parsed
ReparseReturned(parsed) ==
    /\ reparsed' = parsed.value
    /\ last_parser' = parsed.parser
    /\ kmem' = parsed.parser.mem

Reparse ==
    /\ pc = "serialized"
    /\ sret = 0
    /\ ReparseReturned(jsonk_parse(SubSeq(result, 1, result_len), result_len, kmem))
    /\ pc' = "reparsed"
    /\ UNCHANGED <<target, patch, result, result_len, ret, locals, value, sret, hist, declared, hvars>>

\* what the caller holds after jsonk_apply_patch returned a
Returned(a) ==
    /\ ret' = a.ret
    /\ result' = a.result
    /\ result_len' = a.result_len
    /\ locals' = [target_json |-> a.target_json, patch_json |-> a.patch_json,
                  target_copy |-> a.target_copy, ops |-> a.ops]
    /\ kmem' = a.mem

\* jsonk_apply_patch(tgt, ..., patch, ..., buf, sizeof(buf), &result_len)
Call(tgt, buf) ==
    Returned(jsonk_apply_patch(kmem, tgt, Len(tgt), patch, Len(patch), buf, Len(buf), result_len))

ApplyPatch ==
    /\ pc = "start"
    /\ Call(target, result)
    /\ pc' = "patched"
    /\ hist' = [hist EXCEPT !.round = 1]
    /\ UNCHANGED <<target, patch, value, sret, reparsed, last_parser, declared, hvars>>

\* the result of the last application is the target of the next one
\* the call on the bytes r of the previous result, into a fresh buffer
CallAgain(r) ==
    /\ target' = r
    /\ Call(r, FreshBuffer(Len(result)))
    /\ hist' = [result |-> FreshBuffer(Len(result)), result_len |-> result_len,
                round |-> hist.round + 1, prev |-> r, prev_ret |-> ret]

Reapply ==
    /\ pc = "patched"
    /\ hist.round < MaxApplications
    /\ ret \in {JSONK_PATCH_SUCCESS, JSONK_PATCH_NO_CHANGE}
    /\ CallAgain(SubSeq(result, 1, result_len))
    /\ pc' = "patched"
    /\ UNCHANGED <<patch, value, sret, reparsed, last_parser, declared, hvars>>

Next == Parse \/ Serialize \/ Reparse \/ ApplyPatch \/ Reapply

Spec == Init /\ [][Next]_vars

\* a caller that parses a document nested about as deep as the limit
InitDeep == Starting(DeepDocs, {tEmptyObject}, {NoFailure})

SpecDeep == InitDeep /\ [][Parse]_vars

\* a caller that parses a document with a key about as long as the limit
InitLimits == Starting(LongKeyDocs, {tEmptyObject}, {NoFailure})

SpecLimits == InitLimits /\ [][Parse]_vars

\* a caller that parses one text and serializes the tree
InitSyntax == Starting(SyntaxDocs, {tEmptyObject}, {NoFailure})

NextSyntax == Parse \/ Serialize

SpecSyntax == InitSyntax /\ [][NextSyntax]_vars

\* a caller that parses a text with bytes after its value, or patches it
InitTrailing == Starting(TrailingDocs, TrailingPatches, {NoFailure})

NextTrailing == Parse \/ ApplyPatch

SpecTrailing == InitTrailing /\ [][NextTrailing]_vars


\* jsonk_serialize(value, result, n, &result_len) with a buffer_size n that
\* is the length of the caller's buffer at most
SerializeWithin ==
    /\ pc = "parsed"
    /\ value # NULL
    /\ \E n \in 0..Len(result) :
          /\ declared' = n
          /\ Serialized(jsonk_serialize(value, result, 0, n))
    /\ pc' = "serialized"
    /\ UNCHANGED <<target, patch, ret, locals, value, reparsed, hist, kmem, last_parser, hvars>>

\* a caller that parses one text and serializes the tree into a part of its
\* buffer
InitBuffer == Starting(BufferDocs, {tEmptyObject}, {NoFailure})

NextBuffer == Parse \/ SerializeWithin

SpecBuffer == InitBuffer /\ [][NextBuffer]_vars


\* a caller that applies a patch whose values have empty values inside
InitVerbatim == Starting(VerbatimTargets, VerbatimPatches, {NoFailure})

SpecVerbatim == InitVerbatim /\ [][ApplyPatch]_vars



\* the n-th allocation of the run fails, for one n
FailingOnce == {Mem(TRUE, n, 0, 0) : n \in 0..MaxAllocations}

\* a caller whose calls run into one allocation failure
InitMem == Starting(MemTargets, MemPatches, FailingOnce)

SpecMem == InitMem /\ [][Next]_vars

(***************************************************************************)
(* Callers of the reference-count interface.  held[c][n] is the number of  *)
(* references to the struct at address n that context c holds; a context   *)
(* passes to the library only references it holds.  last is the operation  *)
(* that was performed last, and how many there were.                       *)
(***************************************************************************)
\* the caller of the reference-count interface calls nothing else
DocsUnused ==
    /\ kmem = NoFailure
    /\ last_parser = jsonk_parser_init(NoFailure)
    /\ pc = "idle"
    /\ target = <<>>
    /\ patch = <<>>
    /\ result = <<>>
    /\ result_len = 0
    /\ ret = "none"
    /\ locals = NoLocals
    /\ value = NULL
    /\ sret = 0
    /\ reparsed = NULL
    /\ hist = [result |-> <<>>, result_len |-> 0, round |-> 0, prev |-> <<>>,
               prev_ret |-> "none"]
    /\ declared = 0

\* the keys of the members the caller adds and removes
Keys == {kA, kB}

\* the one context of the sequential runs
Caller == 1

\* the String whose JSON text is text
StringOf(text) == jsonk_value_create_string_tracked(NoFailure, text, Len(text), 0).value

\* what the caller creates: an empty Object, the String s
NewValues == {ValueOfType(JSONK_VALUE_OBJECT), StringOf(<<"s">>)}

\* the number of structs a deep copy of the struct at n asks for at most
RECURSIVE TreeSize(_, _)
RECURSIVE SumSizes(_, _, _)
SumSizes(h, children, i) ==
    IF i > Len(children) THEN 0
    ELSE TreeSize(h, children[i]) + SumSizes(h, children, i + 1)

TreeSize(h, n) == 1 + SumSizes(h, Children(h[n].v), 1)

Did(op, node, other, children) == [op |-> op, node |-> node, other |-> other, children |-> children, count |-> last.count + 1]

\* the caller makes MaxOps calls at most
MayCall == last.count < MaxOps

InitHeap ==
    /\ DocsUnused
    /\ HeapUnused

\* v = jsonk_value_create(...) or a constructor of a leaf
CallerCreates ==
    /\ MayCall
    /\ FreeAddresses(heap) # {}
    /\ \E v \in NewValues : heap' = Stored(heap, v)
    /\ held' = [held EXCEPT ![Caller][kmem_cache_alloc(heap)] = 1]
    /\ last' = Did("create", kmem_cache_alloc(heap), 0, {})
    /\ UNCHANGED <<jvars, cpc, frees>>

\* jsonk_value_get(v) on a reference the caller holds
CallerGets ==
    /\ MayCall
    /\ \E n \in Addresses :
          /\ held[Caller][n] > 0
          /\ heap[n].refcount < MaxRefs
          /\ heap' = jsonk_value_get(heap, n)
          /\ held' = [held EXCEPT ![Caller][n] = @ + 1]
          /\ last' = Did("get", n, 0, {})
    /\ UNCHANGED <<jvars, cpc, frees>>

\* jsonk_value_put(v) on a reference the caller holds
CallerPuts ==
    /\ MayCall
    /\ \E n \in Addresses :
          /\ held[Caller][n] > 0
          /\ heap' = ValuePut(heap, n)
          /\ held' = [held EXCEPT ![Caller][n] = @ - 1]
          /\ last' = Did("put", n, 0,
                         {Children(heap[n].v)[i] : i \in 1..Len(Children(heap[n].v))})
    /\ UNCHANGED <<jvars, cpc, frees>>

\* jsonk_object_add_member(&o->u.object, key, key_len, v): the caller's
\* reference to v passes to the object; callers build trees, not cycles
CallerAdds ==
    /\ MayCall
    /\ \E o \in Addresses, n \in Addresses, key \in Keys :
          /\ held[Caller][o] > 0
          /\ heap[o].v.type = JSONK_VALUE_OBJECT
          /\ Len(heap[o].v.members) < MaxMembers
          /\ held[Caller][n] > 0
          /\ o \notin ReachFrom(heap, n)
          /\ heap' = MemberAdded(heap, o, key, Len(key), n)
          /\ held' = [held EXCEPT ![Caller][n] = @ - 1]
          /\ last' = Did("add", o, n, {})
    /\ UNCHANGED <<jvars, cpc, frees>>

\* jsonk_object_remove_member(&o->u.object, key, key_len) that finds the key
CallerRemoves ==
    /\ MayCall
    /\ \E o \in Addresses, key \in Keys :
          /\ held[Caller][o] > 0
          /\ heap[o].v.type = JSONK_VALUE_OBJECT
          /\ jsonk_object_find_member(heap[o].v, key, Len(key)) # 0
          /\ heap' = MemberDropped(heap, o, jsonk_object_find_member(heap[o].v, key, Len(key)))
          /\ last' = Did("remove", o,
                         heap[o].v.members[jsonk_object_find_member(heap[o].v, key,
                                                                    Len(key))].value,
                         {})
    /\ UNCHANGED <<jvars, held, cpc, frees>>

\* what the caller holds after jsonk_value_deep_copy returned c
CopyReturned(n, c) ==
    /\ heap' = c.heap
    /\ held' = IF c.root = 0 THEN held ELSE [held EXCEPT ![Caller][c.root] = 1]
    /\ last' = Did("deep_copy", n, c.root, {})

\* copy = jsonk_value_deep_copy(v, 0), with memory for the whole copy
CallerCopies ==
    /\ MayCall
    /\ \E n \in Addresses :
          /\ held[Caller][n] > 0
          /\ TreeSize(heap, n) <= Cardinality(FreeAddresses(heap))
          /\ CopyReturned(n, ValueDeepCopy(heap, n, 0))
    /\ UNCHANGED <<jvars, cpc, frees>>

NextHeap == CallerCreates \/ CallerGets \/ CallerPuts \/ CallerAdds \/ CallerRemoves \/ CallerCopies

SpecHeap == InitHeap /\ [][NextHeap]_vars

\* the Value the contexts share: an Object with one member, built by
\* create, create, add, and handed to each context with a jsonk_value_get
SharedValue == 2

SharedHeap ==
    [MemberAdded(Stored(Stored(EmptyHeap, StringOf(<<"s">>)),
                        ValueOfType(JSONK_VALUE_OBJECT)),
                 SharedValue, kA, 1, 1)
       EXCEPT ![SharedValue].refcount = NumContexts]

InitShared ==
    /\ DocsUnused
    /\ heap = SharedHeap
    /\ held = [c \in Contexts |-> [n \in Addresses |-> IF n = SharedValue THEN 1 ELSE 0]]
    /\ cpc = [c \in Contexts |-> "idle"]
    /\ frees = 0
    /\ last = NoOperation

\* context c made the call op on the shared Value
SharedDid(op, c) == [last EXCEPT !.op = op, !.node = SharedValue, !.other = c]

\* context c: jsonk_value_get(shared)
SharedGet(c) ==
    /\ cpc[c] = "idle"
    /\ held[c][SharedValue] > 0
    /\ held[c][SharedValue] < MaxRefs
    /\ heap' = jsonk_value_get(heap, SharedValue)
    /\ held' = [held EXCEPT ![c][SharedValue] = @ + 1]
    /\ last' = SharedDid("get", c)
    /\ UNCHANGED <<jvars, cpc, frees>>

\* context c: the atomic_dec_and_test of jsonk_value_put(shared)
SharedPut(c) ==
    /\ cpc[c] = "idle"
    /\ held[c][SharedValue] > 0
    /\ heap' = atomic_dec(heap, SharedValue)
    /\ held' = [held EXCEPT ![c][SharedValue] = @ - 1]
    /\ cpc' = [cpc EXCEPT ![c] = IF heap'[SharedValue].refcount = 0 THEN "free" ELSE "idle"]
    /\ last' = SharedDid("put", c)
    /\ UNCHANGED <<jvars, frees>>

\* context c: the jsonk_value_free_internal its decrement to 0 leads to
SharedFree(c) ==
    /\ cpc[c] = "free"
    /\ heap' = ValueFreeInternal(heap, SharedValue)
    /\ frees' = frees + 1
    /\ cpc' = [cpc EXCEPT ![c] = "idle"]
    /\ last' = SharedDid("free", c)
    /\ UNCHANGED <<jvars, held>>

NextShared == \E c \in Contexts : SharedGet(c) \/ SharedPut(c) \/ SharedFree(c)

SpecShared == InitShared /\ [][NextShared]_vars

TypeOK ==
    /\ pc \in {"start", "parsed", "serialized", "reparsed", "patched"}
    /\ Len(result) \in BufferSizes
    /\ ret \in {"none", JSONK_PATCH_SUCCESS, JSONK_PATCH_ERROR_PARSE, JSONK_PATCH_ERROR_TYPE,
                JSONK_PATCH_ERROR_MEMORY, JSONK_PATCH_ERROR_OVERFLOW, JSONK_PATCH_NO_CHANGE}

\* the tree jsonk_parse builds of a text when no allocation fails
TreeOf(text) == jsonk_parse(text, Len(text), NoFailure).value

(***************************************************************************)
(* A caller that parses a text and then edits the tree: it adds and        *)
(* removes members, appends elements, sets values by path, replaces the    *)
(* tree by its deep copy and merges the parsed patch into it.              *)
(***************************************************************************)
\* the values the caller adds and sets
TreeValues == {TreeOf(tBackslash2X), TreeOf(ObjectText(<<kB>>, <<<<"[", "1", "]">>>>))}

TreeMems == {NoFailure} \cup {Mem(TRUE, n, 0, 0) : n \in 0..MaxTreeAllocations}

InitTree ==
    /\ Starting(TreeDocs, TreePatches, TreeMems)
    /\ Len(result) = TightBuf
    /\ result_len = 0

\* the caller holds a tree and makes MaxCalls calls on it at most
MayEdit ==
    /\ pc \notin {"start", "idle"}
    /\ value # NULL
    /\ hist.round < MaxCalls

\* what the caller holds after the call op returned r (its code, the tree
\* and the allocator), made with the key or path and the value val
Edited(op, path, val, r) ==
    /\ pc' = op
    /\ value' = r.obj
    /\ kmem' = r.mem
    /\ sret' = r.ret
    /\ locals' = [op |-> op, path |-> path, val |-> val, before |-> value]
    /\ hist' = [hist EXCEPT !.round = @ + 1]
    /\ UNCHANGED <<target, patch, result, result_len, ret, reparsed, declared, last_parser, hvars>>

\* jsonk_object_add_member(&value->u.object, key, key_len, v)
TreeAdd ==
    /\ MayEdit
    /\ value.type = JSONK_VALUE_OBJECT
    /\ \E key \in Keys, v \in TreeValues :
          Edited("add", key, v, jsonk_object_add_member(kmem, value, key, Len(key), v))

\* jsonk_object_remove_member(&value->u.object, key, key_len)
TreeRemove ==
    /\ MayEdit
    /\ value.type = JSONK_VALUE_OBJECT
    /\ \E key \in Keys :
          Edited("remove", key, NULL, jsonk_object_remove_member(kmem, value, key, Len(key)))

\* jsonk_array_add_element(&value->u.array, v)
TreeArrayAdd ==
    /\ MayEdit
    /\ value.type = JSONK_VALUE_ARRAY
    /\ \E v \in TreeValues :
          Edited("append", <<>>, v, jsonk_array_add_element_tracked(kmem, value, v))

\* jsonk_set_value_by_path(value, path, path_len, v)
TreeSet ==
    /\ MayEdit
    /\ \E path \in TreePaths, v \in TreeValues :
          Edited("set", path, v, jsonk_set_value_by_path(kmem, value, path, Len(path), v))

\* copy = jsonk_value_deep_copy(value, 1): the caller goes on with the copy
\* and releases the source, or keeps the source when the copy is absent
CopyKept(copy) ==
    IF copy.value = NULL THEN Changed(0 - ENOMEM, value, copy.mem)
    ELSE Changed(0, copy.value, jsonk_value_put(copy.mem, value))

TreeCopy ==
    /\ MayEdit
    /\ Edited("copy", <<>>, NULL, CopyKept(jsonk_value_deep_copy(kmem, value, 1)))

\* jsonk_merge_objects(&value->u.object, &patch_json->u.object, &changed)
MergeKept(m) == Changed(m.ret, m.target, m.mem)

TreeMerge ==
    /\ MayEdit
    /\ value.type = JSONK_VALUE_OBJECT
    /\ Edited("merge", <<>>, TreeOf(patch), MergeKept(jsonk_merge_objects(kmem, value, TreeOf(patch))))

NextTree == Parse \/ TreeAdd \/ TreeRemove \/ TreeArrayAdd \/ TreeSet \/ TreeCopy \/ TreeMerge

SpecTree == InitTree /\ [][NextTree]_vars

(***************************************************************************)
(* What the properties speak of.                                           *)
(***************************************************************************)
Patched == pc = "patched"
IsObject(v) == v.type = JSONK_VALUE_OBJECT
Completed == ret \in {JSONK_PATCH_SUCCESS, JSONK_PATCH_NO_CHANGE}
ErrorCodes == {JSONK_PATCH_ERROR_PARSE, JSONK_PATCH_ERROR_TYPE,
               JSONK_PATCH_ERROR_MEMORY, JSONK_PATCH_ERROR_OVERFLOW}
\* the bytes the last call reported
ResultBytes == SubSeq(result, 1, result_len)
\* the buffer holds every result of the model and a spare byte
LargeBuffer == Len(result) >= BigBuf
\* the last call was made with an Object target and an Object patch
BothObjects == Patched /\ IsObject(locals.target_json) /\ IsObject(locals.patch_json)

KeysOf(obj) == [i \in 1..Len(obj.members) |-> obj.members[i].key]
KeySet(obj) == {obj.members[i].key : i \in 1..Len(obj.members)}
FirstWithKey(obj, key) ==
    LET hits == {i \in 1..Len(obj.members) : obj.members[i].key = key} IN
    IF hits = {} THEN 0 ELSE CHOOSE i \in hits : \A j \in hits : i <= j

\* the rendering of a tree by the serializer, given room
Rendering(v) ==
    LET s == jsonk_serialize(v, FreshBuffer(BigBuf), 0, BigBuf) IN SubSeq(s.buf, 1, s.written)

\* a negative integer literal -n, n > 0
NegativeIntegerLiteral(text) ==
    /\ Len(text) >= 2
    /\ text[1] = "-"
    /\ text[2] \in Digits \ {"0"}
    /\ \A i \in 2..Len(text) : text[i] \in Digits

(***************************************************************************)
(* The reference recursive merge of the merge-patch semantics: the copy of *)
(* a patch value is the value.                                             *)
(***************************************************************************)
EmptyValue(v) ==
    \/ v.type = JSONK_VALUE_NULL
    \/ (v.type = JSONK_VALUE_STRING /\ v.data = <<>>)
    \/ (v.type = JSONK_VALUE_OBJECT /\ v.members = <<>>)
    \/ (v.type = JSONK_VALUE_ARRAY /\ v.elements = <<>>)

RECURSIVE ReferenceMerge(_, _)
RECURSIVE ReferenceMergeFrom(_, _, _)
ReferenceMergeFrom(t, p, i) ==
    IF i > Len(p.members) THEN t
    ELSE
      LET m == p.members[i]
          k == FirstWithKey(t, m.key)
          t1 == IF EmptyValue(m.value)
                THEN IF k = 0 THEN t
                     ELSE [t EXCEPT !.members = SubSeq(@, 1, k - 1) \o SubSeq(@, k + 1, Len(@)),
                                    !.size = @ - 1]
                ELSE IF k = 0
                THEN [t EXCEPT !.members = Append(@, m), !.size = @ + 1]
                ELSE IF IsObject(t.members[k].value) /\ IsObject(m.value)
                THEN [t EXCEPT !.members[k].value = ReferenceMerge(@, m.value)]
                ELSE [t EXCEPT !.members[k].value = m.value]
      IN  ReferenceMergeFrom(t1, p, i + 1)

ReferenceMerge(t, p) == ReferenceMergeFrom(t, p, 1)

RECURSIVE IsSubsequence(_, _)
IsSubsequence(x, y) ==
    IF x = <<>> THEN TRUE
    ELSE IF y = <<>> THEN FALSE
    ELSE IF Head(x) = Head(y) THEN IsSubsequence(Tail(x), Tail(y))
    ELSE IsSubsequence(x, Tail(y))

\* the member order of r is the member order of t merged with p
RECURSIVE OrderPreserved(_, _, _)
OrderPreserved(t, p, r) ==
    LET InTarget(k) == k \in KeySet(t)
        NotInTarget(k) == k \notin KeySet(t)
        kept == SelectSeq(KeysOf(r), InTarget)
        new == SelectSeq(KeysOf(r), NotInTarget)
    IN  /\ IsSubsequence(kept, KeysOf(t))
        /\ KeysOf(r) = kept \o new
        /\ IsSubsequence(new, KeysOf(p))
        /\ \A i \in 1..Len(r.members) :
              LET ti == FirstWithKey(t, r.members[i].key)
                  pi == FirstWithKey(p, r.members[i].key)
              IN  (/\ ti # 0 /\ pi # 0
                   /\ IsObject(t.members[ti].value)
                   /\ IsObject(p.members[pi].value)
                   /\ IsObject(r.members[i].value))
                  => OrderPreserved(t.members[ti].value, p.members[pi].value,
                                    r.members[i].value)

\* a top-level member of the patch whose value is neither empty nor an Object
HasPlainMember(p) ==
    /\ IsObject(p)
    /\ \E i \in 1..Len(p.members) :
          ~EmptyValue(p.members[i].value) /\ ~IsObject(p.members[i].value)

(***************************************************************************)
(* Properties.                                                             *)
(***************************************************************************)

\* C1: a valid JSON text parses, the tree serializes into a large enough
\* buffer, and the serialized bytes parse to a tree equal to the first one.
C1_RoundTrip ==
    target \in ValidDocs =>
      /\ (pc \in {"parsed", "serialized", "reparsed"} => value # NULL)
      /\ (pc \in {"serialized", "reparsed"} /\ LargeBuffer => sret = 0)
      /\ (pc = "reparsed" => reparsed = value)

\* C2: for an Object target and an Object patch and a large enough buffer, the
\* bytes jsonk_apply_patch writes are the serialization of the reference merge
\* of the parsed target with the parsed patch; with no empty value in the patch
\* the result's keys are the keys of the target and of the patch.
C2_ReferenceMerge ==
    (BothObjects /\ LargeBuffer) =>
      /\ Completed
      /\ ResultBytes = Rendering(ReferenceMerge(locals.target_json, locals.patch_json))
      /\ (\A i \in 1..Len(locals.patch_json.members) :
              ~EmptyValue(locals.patch_json.members[i].value))
           => KeySet(TreeOf(ResultBytes))
                = KeySet(locals.target_json) \cup KeySet(locals.patch_json)

\* C3: when jsonk_apply_patch returns an error code, every byte of the result
\* buffer is what it was before the call.
C3_ErrorLeavesBuffer ==
    (Patched /\ ret \in ErrorCodes) => result = hist.result

\* C4: with an Object target and a patch that fails to parse, the call copies
\* the target bytes into the result buffer, reports their length and returns
\* NO_CHANGE when they fit, and returns ERROR_OVERFLOW when they do not.
C4_PatchParseFallback ==
    (/\ Patched
     /\ IsObject(TreeOf(target))
     /\ TreeOf(patch) = NULL)
    => IF Len(target) <= Len(result)
       THEN /\ ret = JSONK_PATCH_NO_CHANGE
            /\ result_len = Len(target)
            /\ result = target \o SubSeq(hist.result, Len(target) + 1, Len(result))
       ELSE ret = JSONK_PATCH_ERROR_OVERFLOW

\* the fallback has copied a target that fills the result buffer exactly
C4_Witness ==
    /\ Patched
    /\ IsObject(TreeOf(target))
    /\ TreeOf(patch) = NULL
    /\ Len(target) = Len(result)
    /\ ret = JSONK_PATCH_NO_CHANGE
    /\ ResultBytes = target

\* C5: the text of a negative integer literal -n, parsed and serialized, is -n.
C5_SignFromInteger ==
    (pc = "serialized" /\ sret = 0 /\ NegativeIntegerLiteral(target))
    => ResultBytes = target

\* C6: in the result of jsonk_apply_patch the surviving target members keep
\* their relative order and position, and the keys new to the target follow
\* them in patch order, at every depth of the merge.
C6_MemberOrder ==
    (BothObjects /\ Completed /\ TreeOf(ResultBytes) # NULL)
    => OrderPreserved(locals.target_json, locals.patch_json,
                      TreeOf(ResultBytes))

\* C7: for an Object target and an Object patch and a large enough buffer the
\* call returns SUCCESS if an insert, delete or replace was performed at some
\* depth, and NO_CHANGE otherwise.
C7_SuccessIffChanged ==
    (BothObjects /\ LargeBuffer) =>
      ret = IF locals.ops > 0 THEN JSONK_PATCH_SUCCESS ELSE JSONK_PATCH_NO_CHANGE

\* C8: applying the patch to the result of applying it gives the same bytes.
C8_Idempotent ==
    (/\ Patched
     /\ hist.round >= 2
     /\ IsObject(TreeOf(patch)))
    => (Completed /\ ResultBytes = hist.prev)

C10_OverflowLengthZero ==
    (Patched /\ ret = JSONK_PATCH_ERROR_OVERFLOW) => result_len = 0

\* C13: the call returns ERROR_PARSE when the target does not parse, and
\* ERROR_TYPE when the target parses to a value that is no Object or, with an
\* Object target, the patch parses to a value that is no Object; the target
\* is examined before the patch.
C13_ErrorCodes ==
    Patched =>
      /\ TreeOf(target) = NULL => ret = JSONK_PATCH_ERROR_PARSE
      /\ (/\ TreeOf(target) # NULL
          /\ ~IsObject(TreeOf(target)))
         => ret = JSONK_PATCH_ERROR_TYPE
      /\ (/\ IsObject(TreeOf(target))
          /\ TreeOf(patch) # NULL
          /\ ~IsObject(TreeOf(patch)))
         => ret = JSONK_PATCH_ERROR_TYPE

\* a target that does not parse was given with a patch that is no Object, and
\* the target's error was the one returned
C13_Witness ==
    /\ Patched
    /\ TreeOf(target) = NULL
    /\ TreeOf(patch) # NULL
    /\ ~IsObject(TreeOf(patch))
    /\ ret = JSONK_PATCH_ERROR_PARSE

\* the compact rendering of a tree: no whitespace, members and elements in
\* list order, keys copied as stored, string bytes escaped
RECURSIVE CompactText(_)
RECURSIVE CompactMembers(_, _)
RECURSIVE CompactElements(_, _)
RECURSIVE CompactString(_, _)
CompactString(data, i) ==
    IF i > Len(data) THEN <<>> ELSE EscapeByte(data[i]) \o CompactString(data, i + 1)

CompactMembers(members, i) ==
    IF i > Len(members) THEN <<>>
    ELSE (IF i > 1 THEN <<",">> ELSE <<>>)
           \o Quoted(members[i].key) \o <<":">> \o CompactText(members[i].value)
           \o CompactMembers(members, i + 1)

CompactElements(elements, i) ==
    IF i > Len(elements) THEN <<>>
    ELSE (IF i > 1 THEN <<",">> ELSE <<>>)
           \o CompactText(elements[i]) \o CompactElements(elements, i + 1)

CompactText(v) ==
    CASE v.type = JSONK_VALUE_NULL -> <<"n", "u", "l", "l">>
      [] v.type = JSONK_VALUE_BOOLEAN ->
            IF v.boolean THEN <<"t", "r", "u", "e">> ELSE <<"f", "a", "l", "s", "e">>
      [] v.type = JSONK_VALUE_NUMBER -> NumberText(v)
      [] v.type = JSONK_VALUE_STRING -> Quoted(CompactString(v.data, 1))
      [] v.type = JSONK_VALUE_OBJECT -> <<"{">> \o CompactMembers(v.members, 1) \o <<"}">>
      [] v.type = JSONK_VALUE_ARRAY -> <<"[">> \o CompactElements(v.elements, 1) \o <<"]">>

\* the caller serialized the parsed tree into its result buffer
SerializeReturned == pc = "serialized"

\* the serializer succeeded and wrote exactly the bytes text
WroteExactly(text) ==
    /\ sret = 0
    /\ result_len = Len(text)
    /\ SubSeq(result, 1, result_len) = text

\* C11 as stated: jsonk_serialize returns overflow exactly when the compact
\* rendering is longer than buffer_size bytes, and otherwise returns 0 with
\* *written the number of bytes of the rendering, which the buffer holds.
C11_OverflowIffNoFit ==
    SerializeReturned =>
      IF Len(CompactText(value)) > Len(result)
      THEN sret = 0 - EOVERFLOW
      ELSE WroteExactly(CompactText(value))

\* C11 amended: jsonk_serialize returns overflow exactly when the compact
\* rendering is not shorter than buffer_size bytes (one byte of the buffer is
\* kept spare), and otherwise returns 0 with *written the number of bytes of
\* the rendering, which the buffer holds.
C11_OverflowIffNoSpareByte ==
    SerializeReturned =>
      IF Len(CompactText(value)) >= Len(result)
      THEN sret = 0 - EOVERFLOW /\ result_len = 0
      ELSE WroteExactly(CompactText(value))

\* a rendering one byte shorter than the buffer was written in full
C11_Witness ==
    /\ SerializeReturned
    /\ Len(CompactText(value)) = Len(result) - 1
    /\ WroteExactly(CompactText(value))

\* the brackets open at the i-th byte of a text (an opening bracket counts
\* itself)
OpenAt(text, i) ==
    Cardinality({j \in 1..i : text[j] \in {"[", "{"}})
      - Cardinality({j \in 1..i : text[j] \in {"]", "}"}})

\* the depths at which a text has a byte of a value or of a key; a value of
\* a container is one invocation deeper than the container
ValueDepths(text) ==
    {IF text[i] \in {"[", "{"} THEN OpenAt(text, i) ELSE OpenAt(text, i) + 1 :
       i \in {j \in 1..Len(text) : text[j] \notin Whitespace \cup {"]", "}", ",", ":"}}}

\* the deepest jsonk_parse_value invocation that a well-formed text whose
\* strings hold no bracket asks for
InvocationDepth(text) ==
    CHOOSE d \in ValueDepths(text) \cup {0} : \A e \in ValueDepths(text) : e <= d

\* jsonk_parse has returned to the caller
ParseCompleted == pc \in {"parsed", "reparsed"}

\* C19: a well-formed document whose values nest to exactly JSONK_MAX_DEPTH
\* value-parser invocations parses, one nested deeper does not, and the
\* parser's depth counter is back at its entry value when the parse returns,
\* whether it succeeded or failed.
C19_DepthBoundary ==
    /\ ParseCompleted => last_parser.depth = 0
    /\ (pc = "parsed" /\ target \in ValidDocs \cup DeepDocs)
       => (value # NULL <=> InvocationDepth(target) <= JSONK_MAX_DEPTH)

\* a document of exactly JSONK_MAX_DEPTH nested invocations has been parsed
C19_Witness ==
    /\ pc = "parsed"
    /\ target \in DeepDocs
    /\ InvocationDepth(target) = JSONK_MAX_DEPTH
    /\ value # NULL
    /\ last_parser.depth = 0


\* C17: jsonk_value_deep_copy returns a tree of the same shape and leaf
\* content as its source.  jsonk_apply_patch deep-copies the parsed target,
\* and a merge with the patch {} touches nothing, so the working copy is then
\* the deep copy of the target: same types, numbers, keys, order, and for
\* every String the same bytes and length.
C17_CopySameContent ==
    (BothObjects /\ patch = tEmptyObject) => locals.target_copy = locals.target_json


\* the allocation that was to fail has failed (a run of SpecMem starts armed)
AllocationFailed == ~kmem.armed

\* C12: when an allocation fails while jsonk_apply_patch runs, the call
\* returns ERROR_MEMORY; it does not return SUCCESS or NO_CHANGE, and no
\* other error code.
C12_AllocationFailureIsMemoryError ==
    (Patched /\ hist.round = 1 /\ AllocationFailed) => ret = JSONK_PATCH_ERROR_MEMORY


\* nothing the library allocated is live
NothingLive == kmem.values = 0 /\ kmem.blocks = 0

\* C16: a jsonk_parse that fails has released every Value, Member, element
\* and buffer it allocated, and when jsonk_apply_patch returns, with any
\* outcome, the parsed target, the parsed patch and the working copy have
\* been released: as many nodes are live as before the call (none).
C16_NothingLeaked ==
    /\ (pc = "parsed" /\ value = NULL) => NothingLive
    /\ (Patched /\ hist.round = 1) => NothingLive

\* the member slots of the struct at m that hold the address n
Slots(h, m, n) == {i \in 1..Len(Children(h[m].v)) : Children(h[m].v)[i] = n}

\* the number of members, over the whole heap, whose value is the struct at n
Incoming(h, n) == Cardinality(UNION {{<<m, i>> : i \in Slots(h, m, n)} : m \in Addresses})

\* the number of references to the struct at n that contexts 1..c hold in hd
RECURSIVE HeldUpTo(_, _, _)
HeldUpTo(hd, c, n) == IF c = 0 THEN 0 ELSE hd[c][n] + HeldUpTo(hd, c - 1, n)

References(h, hd, n) == HeldUpTo(hd, NumContexts, n) + Incoming(h, n)

\* every struct counts the references to it, a struct with references is
\* live with a count of 1 or more, and a freed struct has none
RefsCounted(h, hd) ==
    \A n \in Addresses :
        /\ Live(h, n) => h[n].refcount = References(h, hd, n) /\ h[n].refcount >= 1
        /\ ~Live(h, n) => References(h, hd, n) = 0 /\ h[n].refcount = 0

\* the put of the struct at n took the last reference or one of several
PutCounted(h, n, after) ==
    IF h[n].refcount = 1
    THEN /\ ~Live(after, n)
         /\ \A c \in last'.children :
               IF h[c].refcount = Cardinality(Slots(h, n, c)) THEN ~Live(after, c)
               ELSE after[c].refcount = h[c].refcount - Cardinality(Slots(h, n, c))
    ELSE /\ Live(after, n)
         /\ after[n].refcount = h[n].refcount - 1
         /\ after[n].v = h[n].v

C14_Step ==
    /\ RefsCounted(heap, held) /\ RefsCounted(heap', held')
    /\ last'.op = "create" => heap'[last'.node].refcount = 1
    /\ last'.op = "get" => heap'[last'.node].refcount = heap[last'.node].refcount + 1
    /\ last'.op = "put" => PutCounted(heap, last'.node, heap')

\* C14: a Value is created with count 1, a get adds 1, a put subtracts 1,
\* the put that takes the count to 0 frees the Value and takes one reference
\* from each child; so after any create/get/put/add/remove/copy every Value
\* with a reference is live with count >= 1 equal to the number of references,
\* and a Value is freed only when its last reference is dropped
C14_RefcountLifecycle == [][C14_Step]_vars

\* a parent was released while the caller held a reference to its child,
\* and the child is live with that one reference
C14_Witness ==
    /\ last.op = "put"
    /\ ~Live(heap, last.node)
    /\ \E c \in last.children :
          /\ Live(heap, c)
          /\ heap[c].refcount = 1
          /\ held[Caller][c] = 1

\* the contexts that hold a reference to the shared Value
Holders == {c \in Contexts : held[c][SharedValue] > 0}

\* the contexts whose put took the count to 0 and has not freed yet
Freeing == {c \in Contexts : cpc[c] = "free"}

\* C15: whatever the interleaving of the gets and puts of contexts that each
\* hold a reference to one Value, the Value is freed once, by the put that
\* took the last reference, and not while a context holds a reference; the
\* count is the number of references held
C15_FreedOnceByLastPut ==
    /\ frees <= 1
    /\ Holders # {} => Live(heap, SharedValue) /\ frees = 0 /\ Freeing = {}
    /\ Live(heap, SharedValue) =>
          heap[SharedValue].refcount = HeldUpTo(held, NumContexts, SharedValue)
    /\ Cardinality(Freeing) <= 1
    /\ Freeing # {} => Live(heap, SharedValue) /\ frees = 0 /\ last.op = "put" /\ last.other \in Freeing
    /\ (Holders = {} /\ Freeing = {}) =>
          frees = 1 /\ \A n \in Addresses : ~Live(heap, n)

\* every context dropped all its references and the last put freed the Value
C15_Witness ==
    /\ Holders = {}
    /\ frees = 1
    /\ last.op = "free"
    /\ ~Live(heap, SharedValue)

\* the addresses that hold a struct
LiveAddresses(h) == Addresses \ FreeAddresses(h)

\* the deep copy that took h to after made the tree at copy from the one at
\* source: the copy is made of new structs with one reference each, and the
\* structs of before are all as they were
FreshCopy(h, source, copy, after) ==
    /\ \A n \in LiveAddresses(h) : after[n] = h[n]
    /\ copy # 0 =>
          /\ after[copy].refcount = 1
          /\ ReachFrom(after, copy) \cap LiveAddresses(h) = {}
          /\ ReachFrom(after, copy) \cap ReachFrom(after, source) = {}
          /\ \A n \in ReachFrom(after, copy) : after[n].refcount = 1

\* the call that took h to after, made on the struct at n, left the tree
\* at root as it was
LeftAlone(h, root, after) == \A m \in ReachFrom(h, root) : after[m] = h[m]

\* the first call after a deep copy: made on a struct of the copy it leaves
\* the source alone, made on a struct of the source it leaves the copy alone
Independent(h, source, copy, n, after) ==
    /\ n \in ReachFrom(h, copy) => LeftAlone(h, source, after)
    /\ n \in ReachFrom(h, source) => LeftAlone(h, copy, after)

\* a call made on the struct at n changes no struct outside the tree at n
Framed(h, n, after) == \A m \in LiveAddresses(h) \ ReachFrom(h, n) : after[m] = h[m]

C18_Step ==
    /\ last'.op = "deep_copy" => FreshCopy(heap, last'.node, last'.other, heap')
    /\ Framed(heap, last'.node, heap')
    /\ (last.op = "deep_copy" /\ last.other # 0 /\ last'.op # "create") =>
          Independent(heap, last.node, last.other, last'.node, heap')

\* C18: the tree jsonk_value_deep_copy returns shares no struct with its
\* source, its root has refcount 1, the copy changes no struct of the source,
\* a get, put, add, remove or copy made next on the copy leaves the source
\* unchanged, and made on the source leaves the copy unchanged, and no call
\* changes a struct outside the tree it is made on
C18_CopyIndependent == [][C18_Step]_vars

\* a deep copy of an Object with a member returned an Object with a member
C18_Witness ==
    /\ last.op = "deep_copy"
    /\ last.other # 0
    /\ Len(Children(heap[last.node].v)) > 0
    /\ Len(Children(heap[last.other].v)) > 0

\* the number of bytes of the first key of the text of an Object
FirstKeyLength(text) ==
    (CHOOSE i \in 3..Len(text) : text[i] = "\"" /\ \A j \in 3..(i - 1) : text[j] # "\"") - 3

\* C20: parsing a document in which a key is longer than
\* JSONK_MAX_KEY_LENGTH bytes fails
C20_LongKeyFailsParse ==
    (pc = "parsed" /\ FirstKeyLength(target) > JSONK_MAX_KEY_LENGTH) => value = NULL

\* C23: an array text with a comma before the closing bracket fails to parse,
\* as an object text with a comma before the closing brace does
C23_TrailingCommaFails ==
    (pc = "parsed" /\ target \in TrailingCommaArrays \cup TrailingCommaObjects) => value = NULL

\* the byte an escape letter stands for
EscapedByte(e) ==
    CASE e = "b" -> "BS" [] e = "f" -> "FF" [] e = "n" -> "LF" [] e = "r" -> "CR"
      [] e = "t" -> "TAB" [] OTHER -> e

NotDecoded == [ok |-> FALSE, data |-> <<>>]

\* bytes followed by the decoded rest, if the rest decodes
DecodedAfter(bytes, rest) == IF rest.ok THEN [ok |-> TRUE, data |-> bytes \o rest.data] ELSE NotDecoded

\* the bytes a string text's contents stand for
RECURSIVE Decoded(_)
Decoded(c) ==
    IF c = <<>> THEN [ok |-> TRUE, data |-> <<>>]
    ELSE IF c[1] = "\\"
    THEN IF Len(c) >= 2 /\ c[2] \in SimpleEscapes
         THEN DecodedAfter(<<EscapedByte(c[2])>>, Decoded(SubSeq(c, 3, Len(c))))
         ELSE IF Len(c) >= 6 /\ c[2] = "u" /\ \A i \in 3..6 : c[i] \in HexDigits
         THEN DecodedAfter(SubSeq(c, 1, 6), Decoded(SubSeq(c, 7, Len(c))))
         ELSE NotDecoded
    ELSE IF c[1] \in ControlBytes THEN NotDecoded
    ELSE DecodedAfter(<<c[1]>>, Decoded(Tail(c)))

\* the text is one of the string texts, with its closing quote or without
IsStringDoc(text) == text # <<>> /\ text[1] = "\""

Contents(text) == SubSeq(text, 2, Len(text) - 1)

IsClosed(text) == Len(text) >= 2 /\ text[Len(text)] = "\"" /\ Contents(text) \in StringContents

\* the tree the parse of a string text has to return
StringExpected(d) ==
    IF d.ok
    THEN [ValueOfType(JSONK_VALUE_STRING) EXCEPT !.data = d.data, !.len = Len(d.data)]
    ELSE NULL

\* C24: the String the parser builds holds the unescaped bytes: the eight
\* escapes as one byte each, \u with four hex digits as the same six bytes;
\* any other escape, a short \u, a raw byte below 0x20 or a missing closing
\* quote fails the parse; the String is no longer than the token contents
C24_UnescapedBytes ==
    (pc = "parsed" /\ IsStringDoc(target)) =>
        IF IsClosed(target)
        THEN /\ value = StringExpected(Decoded(Contents(target)))
             /\ value # NULL => value.len <= Len(Contents(target))
        ELSE value = NULL

\* a text with a one-byte escape and a \u escape was parsed to a String
C24_Witness ==
    /\ pc = "parsed"
    /\ target = Quoted(<<"\\", "n", "\\", "u", "0", "0", "4", "1">>)
    /\ value # NULL
    /\ value.len = 7

\* the text is one of the number texts with a fraction or an exponent
IsNumberDoc(text) == text # <<>> /\ text[1] \in Digits \cup {"-"}

\* the value of the digits of the text from index i on, S64_MAX if it is more
RECURSIVE Magnitude(_, _, _)
Magnitude(text, i, acc) ==
    IF i > Len(text) \/ text[i] \notin Digits THEN acc
    ELSE IF acc > (S64_MAX - DigitValue(text[i])) \div 10 THEN S64_MAX
    ELSE Magnitude(text, i + 1, acc * 10 + DigitValue(text[i]))

\* C26: the integer part of a literal with a fraction or an exponent is
\* stored as min(value of its digits, S64_MAX), negated when the literal is
\* negative; the accumulation does not wrap around
C26_IntegerPartSaturates ==
    (pc = "parsed" /\ IsNumberDoc(target)) =>
        /\ value # NULL
        /\ value.integer = IF target[1] = "-" THEN 0 - Magnitude(target, 2, 0)
                           ELSE Magnitude(target, 1, 0)

\* the index of the decimal point of a number text, 0 if it has none
PointOf(text) == IF \E i \in 1..Len(text) : text[i] = "." THEN CHOOSE i \in 1..Len(text) : text[i] = "." ELSE 0

\* the value of the digits of the text from index i on, n of them at most
RECURSIVE DigitsValue(_, _, _, _)
DigitsValue(text, i, n, acc) ==
    IF n = 0 \/ i > Len(text) \/ text[i] \notin Digits THEN acc
    ELSE DigitsValue(text, i + 1, n - 1, acc * 10 + DigitValue(text[i]))

\* the value of the first nine fraction digits of a number text at most
FractionValue(text) == IF PointOf(text) = 0 THEN 0 ELSE DigitsValue(text, PointOf(text) + 1, 9, 0)

\* C30: the fraction of a literal that is no integer is stored as the value
\* of its first nine fraction digits at most, 0 without a decimal point, and
\* is serialized as a plain unsigned decimal after the point
C30_FractionStored ==
    /\ (pc = "parsed" /\ IsNumberDoc(target)) =>
          value # NULL /\ value.fraction = FractionValue(target)
    /\ (pc = "serialized" /\ IsNumberDoc(target) /\ sret = 0) =>
          \E k \in 1..result_len :
              /\ result[k] = "."
              /\ SubSeq(result, k + 1, result_len) = UnsignedDecimal(value.fraction)

\* the call of jsonk_apply_patch on the texts t and p, as the caller made it
AppliedTo(t, p) ==
    jsonk_apply_patch(NoFailure, t, Len(t), p, Len(p), hist.result, Len(hist.result), hist.result_len)

\* the patch has a value of the bases and bytes after it, and the call
\* returned what it returns for the values alone
PatchedAs(b) ==
    \A pb \in ObjectBases, pj \in TrailingBytes : patch = pb \o pj =>
        /\ ret = AppliedTo(b, pb).ret
        /\ result = AppliedTo(b, pb).result
        /\ result_len = AppliedTo(b, pb).result_len

\* C27: a text made of a complete value and bytes after it parses to the
\* tree of the value alone, and jsonk_apply_patch returns for such a target
\* and patch what it returns for the values alone
C27_TrailingBytesIgnored ==
    \A b \in TrailingBases, j \in TrailingBytes : target = b \o j =>
        /\ pc = "parsed" => value # NULL /\ value = jsonk_parse(b, Len(b), NoFailure).value
        /\ pc = "patched" => PatchedAs(b)

C27_Witness ==
    /\ pc = "parsed"
    /\ target = ObjectText(<<kA>>, <<tOne>>) \o <<"x", "y", "z">>
    /\ value # NULL
    /\ value.type = JSONK_VALUE_OBJECT
    /\ value.size = 1

\* C28: jsonk_serialize leaves every byte at an offset of buffer_size and
\* more as it was; when it returns 0 the length it reports is below
\* buffer_size, and when it fails the length it reports is 0
C28_SerializeWithinBuffer ==
    pc = "serialized" =>
        /\ Len(result) = Len(hist.result)
        /\ \A i \in (declared + 1)..Len(result) : result[i] = hist.result[i]
        /\ sret = 0 => result_len < declared
        /\ sret # 0 => result_len = 0

C28_Witness ==
    /\ pc = "serialized"
    /\ sret = 0 - EOVERFLOW
    /\ declared > 0
    /\ declared < Len(result)
    /\ value.type = JSONK_VALUE_OBJECT
    /\ result # hist.result
    /\ hist.result_len = StaleLen
    /\ result_len = 0

\* the value of the first member of the Object with the key
ValueOf(obj, key) == obj.members[FirstWithKey(obj, key)].value

NonEmptyContainer(v) ==
    /\ v.type \in {JSONK_VALUE_OBJECT, JSONK_VALUE_ARRAY}
    /\ v.size > 0

\* the patch member with the key meets no Object in the target
MeetsNoObject(t, key) ==
    FirstWithKey(t, key) = 0 \/ ~IsObject(ValueOf(t, key))

\* the result r has the patch member's value v under the key, as it is
CopiedVerbatim(r, key, v) ==
    /\ r # NULL
    /\ IsObject(r)
    /\ FirstWithKey(r, key) # 0
    /\ ValueOf(r, key) = v

\* the Object o of the result has no member of the patch Object v whose value
\* is empty
EmptiesDropped(o, v) ==
    \A i \in 1..Len(v.members) :
        is_empty(v.members[i].value) => FirstWithKey(o, v.members[i].key) = 0

\* what the claim says of the patch member m, t the target and r the result
MemberVerbatim(t, r, m) ==
    /\ (NonEmptyContainer(m.value) /\ MeetsNoObject(t, m.key)) =>
          ret = JSONK_PATCH_SUCCESS /\ CopiedVerbatim(r, m.key, m.value)
    /\ (IsObject(m.value) /\ m.value.size > 0 /\ ~MeetsNoObject(t, m.key)) =>
          /\ r # NULL /\ IsObject(r) /\ FirstWithKey(r, m.key) # 0
          /\ IsObject(ValueOf(r, m.key))
          /\ EmptiesDropped(ValueOf(r, m.key), m.value)

MembersVerbatim(t, p, r) ==
    \A i \in 1..Len(p.members) : MemberVerbatim(t, r, p.members[i])

\* C29: a patch member's non-empty Object or Array that is inserted, or that
\* replaces a target value that is no Object, is in the result as it is in
\* the patch, the empty values inside it included; where the patch and the
\* target both have an Object, the members the patch gives an empty value are
\* not in the result
C29_InsertedVerbatim ==
    (BothObjects /\ LargeBuffer) =>
        MembersVerbatim(TreeOf(target), TreeOf(patch), TreeOf(ResultBytes))

\* the values of the members of an Object, the elements of an Array
ChildValues(v) ==
    IF v.type = JSONK_VALUE_OBJECT THEN [i \in 1..Len(v.members) |-> v.members[i].value]
    ELSE IF v.type = JSONK_VALUE_ARRAY THEN v.elements
    ELSE <<>>

\* the copy has a child for every member and element of the source, and so
\* has every child of the copy for the child of the source it was made of
RECURSIVE NothingMissing(_, _)
ChildrenPresent(source, copy) ==
    /\ Len(ChildValues(copy)) = Len(ChildValues(source))
    /\ \A i \in 1..Len(ChildValues(source)) :
          NothingMissing(ChildValues(source)[i], ChildValues(copy)[i])

NothingMissing(source, copy) ==
    /\ copy.type = source.type
    /\ source.type \in {JSONK_VALUE_OBJECT, JSONK_VALUE_ARRAY} => ChildrenPresent(source, copy)

\* C25: the deep copy jsonk_apply_patch makes of the parsed target is absent
\* or has every member and element of the target (with the patch {} the
\* merge touches nothing and the working copy is the deep copy as it was
\* returned)
C25_CopyAllOrNothing ==
    (BothObjects /\ patch = tEmptyObject /\ locals.target_copy # NULL) =>
        NothingMissing(locals.target_json, locals.target_copy)

\* the cached size of the Value and of every Value below it is the length
\* of its list
RECURSIVE SizesCached(_)
ListCached(v, list) ==
    /\ v.size = Len(list)
    /\ \A i \in 1..Len(list) : SizesCached(list[i])

SizesCached(v) ==
    /\ v.type = JSONK_VALUE_OBJECT => ListCached(v, ChildValues(v))
    /\ v.type = JSONK_VALUE_ARRAY => ListCached(v, ChildValues(v))

\* C22: after every call of the caller, the failing ones included, the
\* cached size of each Object of the tree is the number of its members and
\* the cached size of each Array is the number of its elements
C22_SizeIsListLength == value # NULL => SizesCached(value)

C22_Witness ==
    /\ pc = "set"
    /\ sret = 0 - ENOMEM
    /\ hist.round = MaxCalls
    /\ value # locals.before
    /\ value.size = Len(value.members)
    /\ value.size > Len(locals.before.members)

\* the path is made of components that are not empty
NonEmptyComponents(path) ==
    /\ path # <<>>
    /\ path[1] # "."
    /\ path[Len(path)] # "."
    /\ \A i \in 1..(Len(path) - 1) : ~(path[i] = "." /\ path[i + 1] = ".")

\* the lengths of the prefixes of the path that end before a dot
InnerPrefixes(path) == {n \in 1..(Len(path) - 1) : path[n + 1] = "."}

\* the first component of the path
FirstComponent(path) ==
    SubSeq(path, 1, CHOOSE n \in 0..Len(path) :
                       /\ \A i \in 1..n : path[i] # "."
                       /\ n = Len(path) \/ path[n + 1] = ".")

\* the members of the root before whose key is not the first component are
\* in the root after, where they were, and a member the call adds is the last
OffPathUnchanged(before, after, first) ==
    /\ \A i \in 1..Len(before.members) :
          before.members[i].key # first =>
              i <= Len(after.members) /\ after.members[i] = before.members[i]
    /\ \/ KeysOf(after) = KeysOf(before)
       \/ KeysOf(after) = Append(KeysOf(before), first)

\* what the claim says of the root after the call, made on the root before
SetAsSaid(before, after, path, val) ==
    /\ jsonk_get_value_by_path(after, path, Len(path)) = val
    /\ \A n \in InnerPrefixes(path) :
          jsonk_get_value_by_path(after, path, n) # NULL
            /\ IsObject(jsonk_get_value_by_path(after, path, n))
    /\ OffPathUnchanged(before, after, FirstComponent(path))

\* C21: when jsonk_set_value_by_path returned 0 for an Object root and a
\* path of non-empty components, jsonk_get_value_by_path returns for the
\* path a value equal to the one that was set, every inner component of the
\* path is an Object, and the members of the root that are not on the path
\* are unchanged and in their places
C21_SetThenGet ==
    (pc = "set" /\ sret = 0 /\ IsObject(locals.before) /\ NonEmptyComponents(locals.path)) =>
        SetAsSaid(locals.before, value, locals.path, locals.val)

====
